---- MODULE Spec2Model ----
(***************************************************************************)
(* Token lifecycle of the Fast-EasiLogin gateway: the per-host circuit     *)
(* breaker of the retrying HTTP client (shared/http_client.py), the        *)
(* inflight guards, the SSO request path and the token renewal job         *)
(* (api/gateway/state.py, api/gateway/router.py).                          *)
(*                                                                         *)
(* The program runs on one asyncio event loop: an action is the code a     *)
(* coroutine runs between two suspension points (awaits that really        *)
(* yield: network calls, sleeps, disk-cache reads and writes).             *)
(***************************************************************************)
EXTENDS Integers, FiniteSets, Sequences, TLC

(***************************************************************************)
(* Program constants.                                                      *)
(***************************************************************************)
FAIL_THRESHOLD == 3
RESET_TIMEOUT == 10
HTTP_SERVER_ERROR == 500

(***************************************************************************)
(* Bounds of the model.                                                    *)
(***************************************************************************)
MaxTime == 10
TickSeconds == 5
MaxAttempts == 3
MaxClock == 6
MaxLoginClock == 100
LoginTickSeconds == 100
TOKEN_TTL == 5

TOKEN_INVALID_CODE == 40105
LOGIN_TTL == 120

\* Bytes a cache entry can hold, the keys and the concurrent callers of the cache.
Texts == {"v1", "v2"}
Keys == {"key"}
Ops == {"o1", "o2"}
\* Seconds that pass in one step of the cache clock.
TickSteps == {1, 5}

Hosts == {"edu.seewo.com", "account.seewo.com"}
Callers == {"c1", "c2"}

\* The gateway: stored accounts, the tokens the upstream issues, the uid it
\* returns with each (none with t2), concurrent SSO requests.
Users == {"u1"}
UserIds == Users \cup {"u0"}
Tokens == {"t1", "t2"}
NoToken == ""
NoUid == ""
NoUserId == ""
Uids == {"d1"}
UidOfToken == [t \in Tokens |-> IF t = "t1" THEN "d1" ELSE NoUid]
Reqs == {"r1", "r2"}
Nicknames == {"n0", "n1"}

\* Status codes an upstream response can carry, and TransportError for an
\* exception raised by client.get / client.post.
TransportError == 0
Statuses == {200, 401, 500, 503}
NetOutcomes == Statuses \cup {TransportError}

VARIABLES
  now,          \* time.time(), in whole seconds
  breaker,      \* HttpClientManager._breaker: host -> state (a dict, lazily filled)
  cpc,          \* caller -> position in request_with_retry
  chost,        \* caller -> host of the url
  cmax,         \* caller -> max_attempts
  cattempt,     \* caller -> loop variable "attempt"
  cresult,      \* caller -> how the call ended
  cnet,         \* caller -> network calls this call has made
  ctrial,       \* caller -> its last attempt was let through as a half-open trial
  cclosed,      \* caller -> the host's breaker was closed when the call started
  failsSince,   \* host -> failed attempts since the host's last successful response
  inflightTokens, \* _INFLIGHT_TOKENS
  inflightUsers,  \* _INFLIGHT_USERS
  cache,        \* the token entries of the cache: token_by_user:*, token_by_uid:*, token_index:*
  users,        \* the user store: userid -> nickname of the stored record
  rpc,          \* request -> position in sso_login_user and its background tasks
  ruser,        \* request -> userid of the request
  rtok,         \* request -> token in hand
  jpc,          \* position of token_renew_job
  jtokens,      \* tokens of the sweep's key list not visited yet
  jtok,         \* the sweep's current token
  jerrors,      \* the sweep's "errors" counter
  marks,        \* token -> try_mark_inflight results since the token's last clear_inflight
  amem,         \* AsyncCache._mem: key -> (data, expiry)
  amiss,        \* AsyncCache._miss: key -> expiry of the negative entry (0: none)
  adisk,        \* the backing store: key -> (data, expire_time)
  opc,          \* cache caller -> position in get or set
  okey,         \* cache caller -> key of its call
  odata,        \* cache caller -> "data" of its set (None outside a set)
  ottl,         \* cache caller -> "ttl" of its set (0 outside a set)
  onow,         \* cache caller -> "now" of its get (0 outside a get)
  glast,        \* key -> the set that started last: caller, data, the expiry it gave,
                \* and the expiry the entry had before if that set rewrote a live entry
  lpc,          \* caller -> position in user_login
  lres,         \* caller -> what its user_login call returned or raised
  lwho,         \* caller -> the _userid argument of its call of the later user_login
  luser,        \* caller -> the user whose account its call logs in
  uactive,      \* user store: userid -> the record's "active" flag
  cfgDisable,   \* appsettings: Global.enable_password_error_disable
  mdata,        \* InMemoryKVCache._data: the OrderedDict as the sequence of its items
  mtouch,       \* key -> the last get hit or set of the key (stamp 0: none yet)
  mstamp,       \* number of get hits and sets so far
  mevicted,     \* the keys popitem(last=False) has removed in the latest set
  spc,          \* position of the application's shutdown (lifespan's finally / _shutdown)
  httpOpen,     \* HttpClientManager._client is the client opened at start-up
  cacheOpen,    \* SharedContainer.disk_cache is the cache opened at start-up
  umtime,       \* modification time of the user store (users.json / the profile files)
  wpc,          \* caller -> position in save_users_async
  wexp,         \* caller -> the marker it took with get_users_mtime (NoMarker: None)
  wdata,        \* caller -> the nickname of u1 in the map it saves
  wres,         \* caller -> what its last save_users_async returned
  kref,         \* key -> what a one-tier map holds after the calls so far: the data of
                \* the set that started last, the earlier and the later of the expiries
                \* that set gave it in the two tiers, and the state of a delete of the key
  kclr,         \* key -> state of a clear_cache call since the key's last set
  pts,          \* the pt_timestamp of the user's stored record (NoStamp: None)
  vpc,          \* save request -> position in save_user
  vts,          \* save request -> body.pt_timestamp
  vtoken,       \* save request -> body.pt_token is a usable token
  vbg           \* save request -> it has queued the background refresh

bvars == <<now, breaker, cpc, chost, cmax, cattempt, cresult, cnet, ctrial, cclosed, failsSince>>
hvars == <<breaker, cpc, chost, cmax, cattempt, cresult, cnet, ctrial, cclosed, failsSince>>
gvars == <<inflightTokens, inflightUsers, cache, users, rpc, ruser, rtok,
           jpc, jtokens, jtok, jerrors, marks>>
avars == <<amem, amiss, adisk, opc, okey, odata, ottl, onow, glast>>
dvars == <<lwho, luser, uactive, cfgDisable>>
lvars == <<lpc, lres, dvars>>
mvars == <<mdata, mtouch, mstamp, mevicted>>
svars == <<spc, httpOpen, cacheOpen>>
wvars == <<umtime, wpc, wexp, wdata, wres>>
kvars == <<kref, kclr>>
pvars == <<pts, vpc, vts, vtoken, vbg>>
xvars == <<mvars, svars, wvars, kvars, pvars>>

----------------------------------------------------------------------------
(***************************************************************************)
(* The circuit breaker.                                                    *)
(***************************************************************************)
FreshState == [fail |-> 0, opened_at |-> 0, open |-> FALSE, half |-> FALSE]

\* self._breaker[host] = st
Put(b, host, st) == [h \in (DOMAIN b) \cup {host} |-> IF h = host THEN st ELSE b[h]]

\* _breaker_state: the state of host, created on first use.
breaker_state(b, host) == IF host \in DOMAIN b THEN b ELSE Put(b, host, FreshState)

\* _should_block with the window test the wrong way round.
should_block_reversed(b, host, t) ==
  LET b1 == breaker_state(b, host)
      st == b1[host]
  IN IF st.open
       THEN IF t - st.opened_at >= RESET_TIMEOUT
              THEN [block |-> TRUE, br |-> b1]
              ELSE [block |-> FALSE,
                    br |-> Put(b1, host, [st EXCEPT !.open = FALSE, !.half = TRUE])]
       ELSE [block |-> FALSE, br |-> b1]

\* _should_block that lets a single trial through: it blocks while half-open.
should_block_single_trial(b, host, t) ==
  LET b1 == breaker_state(b, host)
      st == b1[host]
  IN IF st.open
       THEN IF t - st.opened_at < RESET_TIMEOUT
              THEN [block |-> TRUE, br |-> b1]
              ELSE [block |-> FALSE,
                    br |-> Put(b1, host, [st EXCEPT !.open = FALSE, !.half = TRUE])]
       ELSE [block |-> st.half, br |-> b1]

\* _should_block that sets half at the end of the window and leaves open set.
should_block_stays_open(b, host, t) ==
  LET b1 == breaker_state(b, host)
      st == b1[host]
  IN IF st.open
       THEN IF t - st.opened_at < RESET_TIMEOUT
              THEN [block |-> TRUE, br |-> b1]
              ELSE [block |-> FALSE, br |-> Put(b1, host, [st EXCEPT !.half = TRUE])]
       ELSE [block |-> FALSE, br |-> b1]

\* _should_block: the verdict and the breaker map it leaves.
should_block(b, host, t) ==
  LET b1 == breaker_state(b, host)
      st == b1[host]
  IN IF st.open
       THEN IF t - st.opened_at < RESET_TIMEOUT
              THEN [block |-> TRUE, br |-> b1]
              ELSE [block |-> FALSE,
                    br |-> Put(b1, host, [st EXCEPT !.open = FALSE, !.half = TRUE])]
       ELSE [block |-> FALSE, br |-> b1]

\* _record_success that closes the breaker but keeps the failure counter.
record_success_keeps_fail(b, host) ==
  LET b1 == breaker_state(b, host)
  IN Put(b1, host, [b1[host] EXCEPT !.open = FALSE, !.half = FALSE, !.opened_at = 0])

\* _record_success with one state shared by all hosts: every host is reset.
record_success_all_hosts(b, host) == [h \in (DOMAIN b) \cup {host} |-> FreshState]

\* _record_success
record_success(b, host) == Put(b, host, FreshState)

\* _record_failure that opens one failure late (fail > FAIL_THRESHOLD).
record_failure_late(b, host, t) ==
  LET b1 == breaker_state(b, host)
      st == b1[host]
      f == st.fail + 1
  IN IF f > FAIL_THRESHOLD
       THEN Put(b1, host, [fail |-> f, opened_at |-> t, open |-> TRUE, half |-> FALSE])
       ELSE Put(b1, host, [st EXCEPT !.fail = f])

\* _record_failure that stamps opened_at only when the counter first reaches
\* the threshold.
record_failure_old_timer(b, host, t) ==
  LET b1 == breaker_state(b, host)
      st == b1[host]
      f == st.fail + 1
  IN IF f >= FAIL_THRESHOLD
       THEN Put(b1, host, [fail |-> f,
                           opened_at |-> IF f = FAIL_THRESHOLD THEN t ELSE st.opened_at,
                           open |-> TRUE, half |-> FALSE])
       ELSE Put(b1, host, [st EXCEPT !.fail = f])

\* _record_failure
record_failure(b, host, t) ==
  LET b1 == breaker_state(b, host)
      st == b1[host]
      f == st.fail + 1
  IN IF f >= FAIL_THRESHOLD
       THEN Put(b1, host, [fail |-> f, opened_at |-> t, open |-> TRUE, half |-> FALSE])
       ELSE Put(b1, host, [st EXCEPT !.fail = f])

\* Neither open nor half-open (a host never used yet is closed).
IsClosed(b, host) == host \notin DOMAIN b \/ (~b[host].open /\ ~b[host].half)

\* r.status_code >= HTTP_SERVER_ERROR, or the call raised
IsFailure(outcome) == outcome = TransportError \/ outcome >= HTTP_SERVER_ERROR

----------------------------------------------------------------------------
(***************************************************************************)
(* request_with_retry, one caller per concurrent call.                     *)
(***************************************************************************)
BreakerInit ==
  /\ now = 0
  /\ breaker = [h \in {} |-> FreshState]
  /\ cpc = [c \in Callers |-> "idle"]
  /\ chost = [c \in Callers |-> "edu.seewo.com"]
  /\ cmax = [c \in Callers |-> 1]
  /\ cattempt = [c \in Callers |-> 0]
  /\ cresult = [c \in Callers |-> "none"]
  /\ cnet = [c \in Callers |-> 0]
  /\ ctrial = [c \in Callers |-> FALSE]
  /\ cclosed = [c \in Callers |-> FALSE]
  /\ failsSince = [h \in Hosts |-> 0]

\* The top of the loop body for caller c and host h: _should_block, then
\* either CircuitOpenError is raised or the network call is issued and the
\* coroutine suspends in client.get / client.post.
TryAttempt(c, h) ==
  LET sb == should_block(breaker, h, now)
      st == breaker_state(breaker, h)[h]
  IN /\ breaker' = sb.br
     /\ IF sb.block
          THEN /\ cpc' = [cpc EXCEPT ![c] = "done"]
               /\ cresult' = [cresult EXCEPT ![c] = "CircuitOpen"]
               /\ UNCHANGED <<cnet, ctrial>>
          ELSE /\ cpc' = [cpc EXCEPT ![c] = "net"]
               /\ cnet' = [cnet EXCEPT ![c] = @ + 1]
               /\ ctrial' = [ctrial EXCEPT ![c] = st.open \/ st.half]
               /\ UNCHANGED cresult

\* A call request_with_retry(method, url, max_attempts = m) starts and runs to
\* its first suspension point: host = self._host_from_url(url), attempt = 0.
Request(c, host, m) ==
  /\ cpc[c] = "idle"
  /\ chost' = [chost EXCEPT ![c] = host]
  /\ cmax' = [cmax EXCEPT ![c] = m]
  /\ cclosed' = [cclosed EXCEPT ![c] = IsClosed(breaker, host)]
  /\ TryAttempt(c, host)
  /\ UNCHANGED <<now, cattempt, failsSince, gvars, avars, lvars, xvars>>

\* The network call returns or raises: _record_failure and the backoff sleep,
\* or _record_success and the response is returned.
Respond(c, outcome) ==
  /\ cpc[c] = "net"
  /\ IF IsFailure(outcome)
       THEN /\ breaker' = record_failure(breaker, chost[c], now)
            /\ failsSince' = [failsSince EXCEPT ![chost[c]] = @ + 1]
            /\ cpc' = [cpc EXCEPT ![c] = "sleep"]
            /\ UNCHANGED cresult
       ELSE /\ breaker' = record_success(breaker, chost[c])
            /\ failsSince' = [failsSince EXCEPT ![chost[c]] = 0]
            /\ cpc' = [cpc EXCEPT ![c] = "done"]
            /\ cresult' = [cresult EXCEPT ![c] = "ok"]
  /\ UNCHANGED <<now, chost, cmax, cattempt, cnet, ctrial, cclosed, gvars, avars, lvars, xvars>>

\* The loop running one attempt too many (range(max_attempts + 1)).
BackoffOneMore(c) ==
  /\ cpc[c] = "sleep"
  /\ cattempt' = [cattempt EXCEPT ![c] = @ + 1]
  /\ IF cattempt[c] + 1 <= cmax[c]
       THEN TryAttempt(c, chost[c])
       ELSE /\ cpc' = [cpc EXCEPT ![c] = "done"]
            /\ cresult' = [cresult EXCEPT ![c] = "RequestFailed"]
            /\ UNCHANGED <<breaker, cnet, ctrial>>
  /\ UNCHANGED <<now, chost, cmax, cclosed, failsSince, gvars, avars, lvars, xvars>>

\* asyncio.sleep(backoff_base * 2**attempt) ends: continue; the loop is
\* exhausted and RequestFailedError is raised, or it takes the next attempt.
Backoff(c) ==
  /\ cpc[c] = "sleep"
  /\ cattempt' = [cattempt EXCEPT ![c] = @ + 1]
  /\ IF cattempt[c] + 1 < cmax[c]
       THEN TryAttempt(c, chost[c])
       ELSE /\ cpc' = [cpc EXCEPT ![c] = "done"]
            /\ cresult' = [cresult EXCEPT ![c] = "RequestFailed"]
            /\ UNCHANGED <<breaker, cnet, ctrial>>
  /\ UNCHANGED <<now, chost, cmax, cclosed, failsSince, gvars, avars, lvars, xvars>>

\* The caller has its response or its exception; the coroutine is gone.
Return(c) ==
  /\ cpc[c] = "done"
  /\ cpc' = [cpc EXCEPT ![c] = "idle"]
  /\ cresult' = [cresult EXCEPT ![c] = "none"]
  /\ cattempt' = [cattempt EXCEPT ![c] = 0]
  /\ cmax' = [cmax EXCEPT ![c] = 1]
  /\ cnet' = [cnet EXCEPT ![c] = 0]
  /\ ctrial' = [ctrial EXCEPT ![c] = FALSE]
  /\ chost' = [chost EXCEPT ![c] = "edu.seewo.com"]
  /\ cclosed' = [cclosed EXCEPT ![c] = FALSE]
  /\ UNCHANGED <<now, breaker, failsSince, gvars, avars, lvars, xvars>>

\* Time passes, TickSeconds at a time.  The clock is read only by _should_block
\* on an open breaker (and stamped by _record_failure when it opens one), so
\* the time that passes while no breaker is open is not counted.
Tick ==
  /\ now < MaxTime
  /\ \E h \in DOMAIN breaker : breaker[h].open
  /\ now' = now + TickSeconds
  /\ UNCHANGED <<breaker, cpc, chost, cmax, cattempt, cresult, cnet, ctrial, cclosed, failsSince, gvars, avars, lvars, xvars>>

BreakerNext ==
  \/ \E c \in Callers, h \in Hosts, m \in 1..MaxAttempts : Request(c, h, m)
  \/ \E c \in Callers, o \in NetOutcomes : Respond(c, o)
  \/ \E c \in Callers : Backoff(c)
  \/ \E c \in Callers : Return(c)
  \/ Tick

----------------------------------------------------------------------------
(***************************************************************************)
(* The gateway: inflight guards, token cache entries, SSO requests and the *)
(* renewal job.                                                            *)
(***************************************************************************)
\* try_mark_inflight that answers without adding the key.
try_mark_inflight_no_add(set, key) ==
  IF key \in set THEN [ok |-> FALSE, set |-> set]
                 ELSE [ok |-> TRUE, set |-> set]

\* try_mark_inflight: the answer and the set it leaves.
try_mark_inflight(set, key) ==
  IF key \in set THEN [ok |-> FALSE, set |-> set]
                 ELSE [ok |-> TRUE, set |-> set \cup {key}]

\* clear_inflight
clear_inflight(set, key) == set \ {key}

\* What a validity probe (_exchange_token through request_with_retry) can end
\* in: a response body with its statusCode, or an exception.
ProbeResponses == {[kind |-> "response", code |-> c] : c \in {200, TOKEN_INVALID_CODE}}
ProbeErrors == {[kind |-> k, code |-> 0] : k \in {"RequestFailed", "CircuitOpen", "TransportError"}}
ProbeOutcomes == ProbeResponses \cup ProbeErrors

\* is_token_invalid failing closed: an exception is answered True.
is_token_invalid_fail_closed(o) ==
  o.kind # "response" \/ o.code = TOKEN_INVALID_CODE

\* is_token_invalid: every exception is caught and answered False.
is_token_invalid(o) == o.kind = "response" /\ o.code = TOKEN_INVALID_CODE

\* check_token_status: no exception is caught here.
check_token_status(o) ==
  IF o.kind = "response"
    THEN [raised |-> FALSE, invalid |-> o.code = TOKEN_INVALID_CODE]
    ELSE [raised |-> TRUE, invalid |-> FALSE]

\* A token_index value, and the absent entry.
NoIndex == [userid |-> "", uid |-> NoUid]
IndexOf(u, d) == [userid |-> u, uid |-> d]

\* invalidate_token_cache
invalidate_token_cache(c, tok) ==
  LET raw == c.index[tok] IN
    IF raw # NoIndex
      THEN [byUser |-> [u \in UserIds |-> IF u = raw.userid THEN NoToken ELSE c.byUser[u]],
            byUid |-> [d \in Uids |-> IF d = raw.uid THEN NoToken ELSE c.byUid[d]],
            index |-> [c.index EXCEPT ![tok] = NoIndex],
            login |-> [u \in UserIds |-> IF u = raw.userid THEN NoToken ELSE c.login[u]]]
      ELSE c

\* The three r.set calls of a refresh for userid u, uid d (if any) and token tok.
SetEntries(c, u, d, tok, idx) ==
  [byUser |-> [x \in UserIds |-> IF x = u THEN tok ELSE c.byUser[x]],
   byUid |-> [x \in Uids |-> IF x = d THEN tok ELSE c.byUid[x]],
   index |-> [c.index EXCEPT ![tok] = idx],
   login |-> c.login]

\* sso_login_user, lines 90-107: the cached token is served; its entries are
\* refreshed when its token_index entry is there.
ServeCached(c, u, tok) ==
  LET raw == c.index[tok] IN
    IF raw # NoIndex THEN SetEntries(c, u, raw.uid, tok, raw) ELSE c

\* The refresh with the index value rebuilt from the userid alone instead of
\* written back as it was read.
RenewEntriesRebuilt(c, tok) ==
  LET raw == c.index[tok] IN
    IF raw # NoIndex
      THEN SetEntries(c, raw.userid, raw.uid, tok, IndexOf(raw.userid, NoUid))
      ELSE c

\* token_renew_job, lines 58-75: the refresh of a token found valid.
RenewEntries(c, tok) ==
  LET raw == c.index[tok] IN
    IF raw # NoIndex THEN SetEntries(c, raw.userid, raw.uid, tok, raw) ELSE c

\* sso_login_user, lines 121-128: the entries written after a login.
LoginEntries(c, u, tok, d) == SetEntries(c, u, d, tok, IndexOf(u, d))


\* The record of try_mark_inflight answers for a key, kept until the key's
\* next clear_inflight.
NoMarks == [granted |-> 0, refused |-> FALSE]
NoteMark(m, key, ok) ==
  IF ok THEN [m EXCEPT ![key].granted = @ + 1] ELSE [m EXCEPT ![key].refused = TRUE]
NoteClear(m, key) == [m EXCEPT ![key] = NoMarks]

GatewayInit ==
  /\ inflightTokens = {}
  /\ inflightUsers = {}
  /\ cache = [byUser |-> [u \in UserIds |-> NoToken],
              byUid |-> [d \in Uids |-> NoToken],
              index |-> [t \in Tokens |-> NoIndex],
              login |-> [u \in UserIds |-> NoToken]]
  /\ users = [u \in Users |-> "n0"]
  /\ rpc = [p \in Reqs |-> "idle"]
  /\ ruser = [p \in Reqs |-> "u1"]
  /\ rtok = [p \in Reqs |-> NoToken]
  /\ jpc = "sleeping"
  /\ jtokens = {}
  /\ jtok = NoToken
  /\ jerrors = 0
  /\ marks = [t \in Tokens |-> NoMarks]

\* _update_user_profile without the check of the mark: every refresh loads the
\* records and goes on.
ProfileBeginUnguarded(p, u) ==
  IF u \notin DOMAIN users
    THEN /\ rpc' = [rpc EXCEPT ![p] = "idle"]
         /\ UNCHANGED inflightUsers
    ELSE /\ rpc' = [rpc EXCEPT ![p] = "profile_fetch"]
         /\ inflightUsers' = inflightUsers \cup {u}

\* _update_user_profile up to its first suspension point: the user mark is
\* taken unless held; the record is loaded; the user-info call is issued.
ProfileBegin(p, u) ==
  IF u \in inflightUsers
    THEN /\ rpc' = [rpc EXCEPT ![p] = "idle"]
         /\ UNCHANGED inflightUsers
    ELSE IF u \notin DOMAIN users
      THEN /\ rpc' = [rpc EXCEPT ![p] = "idle"]
           /\ UNCHANGED inflightUsers
      ELSE /\ rpc' = [rpc EXCEPT ![p] = "profile_fetch"]
           /\ inflightUsers' = inflightUsers \cup {u}

\* GET /getData/SSOLOGIN/{userid} arrives and runs to its first network call:
\* the fast path finds a cached token and marks it (or does not get the mark
\* and serves the token), or there is none and the login call is issued (404
\* when no record is stored for the userid).
SsoBegin(p, u) ==
  /\ rpc[p] = "idle"
  /\ ruser' = [ruser EXCEPT ![p] = IF cache.byUser[u] = NoToken /\ u \notin DOMAIN users
                                     THEN @ ELSE u]
  /\ LET tok == cache.byUser[u]
         m == try_mark_inflight(inflightTokens, tok)
     IN IF tok # NoToken
          THEN IF m.ok
                 THEN /\ inflightTokens' = m.set
                      /\ marks' = NoteMark(marks, tok, TRUE)
                      /\ rpc' = [rpc EXCEPT ![p] = "fast_probe"]
                      /\ rtok' = [rtok EXCEPT ![p] = tok]
                      /\ UNCHANGED cache
                 ELSE /\ inflightTokens' = clear_inflight(m.set, tok)
                      /\ marks' = NoteClear(NoteMark(marks, tok, FALSE), tok)
                      /\ cache' = ServeCached(cache, u, tok)
                      /\ UNCHANGED <<rpc, rtok>>
          ELSE /\ rpc' = [rpc EXCEPT ![p] = IF u \in DOMAIN users THEN "login" ELSE "idle"]
               /\ rtok' = [rtok EXCEPT ![p] = IF u \in DOMAIN users THEN cache.login[u]
                                                                     ELSE NoToken]
               /\ UNCHANGED <<inflightTokens, marks, cache>>
  /\ UNCHANGED <<inflightUsers, users, jpc, jtokens, jtok, jerrors, bvars, avars, lvars, xvars>>

\* The fast probe is_token_invalid(token, fast=True) returns: the mark is
\* cleared; the token is served, or evicted and the login call is issued
\* (user_login looks its cached login record up first).
FastProbeEnd(p, o) ==
  /\ rpc[p] = "fast_probe"
  /\ inflightTokens' = clear_inflight(inflightTokens, rtok[p])
  /\ marks' = NoteClear(marks, rtok[p])
  /\ IF is_token_invalid(o)
       THEN /\ cache' = invalidate_token_cache(cache, rtok[p])
            /\ rpc' = [rpc EXCEPT ![p] = IF ruser[p] \in DOMAIN users THEN "login" ELSE "idle"]
            /\ rtok' = [rtok EXCEPT ![p] = IF ruser[p] \in DOMAIN users
                                              THEN cache'.login[ruser[p]] ELSE NoToken]
       ELSE /\ cache' = ServeCached(cache, ruser[p], rtok[p])
            /\ rpc' = [rpc EXCEPT ![p] = "idle"]
            /\ rtok' = [rtok EXCEPT ![p] = NoToken]
  /\ UNCHANGED <<inflightUsers, users, ruser, jpc, jtokens, jtok, jerrors, bvars, avars, lvars, xvars>>

\* The write of one of the three entries (r.set suspends on the backing store
\* after each).
SetByUser(c, u, tok) == [c EXCEPT !.byUser[u] = tok]
SetByUid(c, d, tok) == IF d # NoUid THEN [c EXCEPT !.byUid[d] = tok] ELSE c
SetIndex(c, tok, idx) == [c EXCEPT !.index[tok] = idx]

\* user_login returns a token (with the uid the upstream gave it) or raises
\* 401 / 504; token_by_user is written.  A call that found a login record in
\* the cache returns that record's token.
LoginEnd(p, tok) ==
  /\ rpc[p] = "login"
  /\ rtok[p] # NoToken => tok = rtok[p]
  /\ IF tok # NoToken
       THEN /\ cache' = SetByUser(cache, ruser[p], tok)
            /\ rpc' = [rpc EXCEPT ![p] = "login_uid"]
            /\ rtok' = [rtok EXCEPT ![p] = tok]
       ELSE /\ rpc' = [rpc EXCEPT ![p] = "idle"]
            /\ UNCHANGED <<cache, rtok>>
  /\ UNCHANGED <<inflightTokens, inflightUsers, users, ruser,
                 jpc, jtokens, jtok, jerrors, marks, bvars, avars, lvars, xvars>>

\* token_by_uid is written (when the upstream gave a uid).
LoginWriteUid(p) ==
  /\ rpc[p] = "login_uid"
  /\ cache' = SetByUid(cache, UidOfToken[rtok[p]], rtok[p])
  /\ rpc' = [rpc EXCEPT ![p] = "login_index"]
  /\ UNCHANGED <<inflightTokens, inflightUsers, users, ruser, rtok,
                 jpc, jtokens, jtok, jerrors, marks, bvars, avars, lvars, xvars>>

\* token_index is written and the response is sent; the background tasks
\* are queued.
LoginWriteIndex(p) ==
  /\ rpc[p] = "login_index"
  /\ cache' = SetIndex(cache, rtok[p], IndexOf(ruser[p], UidOfToken[rtok[p]]))
  /\ rpc' = [rpc EXCEPT ![p] = "bg_validate"]
  /\ UNCHANGED <<inflightTokens, inflightUsers, users, ruser, rtok,
                 jpc, jtokens, jtok, jerrors, marks, bvars, avars, lvars, xvars>>

\* The background task _validate_token_after_login starts: it marks the token
\* and issues the probe, or does not get the mark and returns; then
\* _update_user_profile starts.
BgValidateBegin(p) ==
  /\ rpc[p] = "bg_validate"
  /\ LET m == try_mark_inflight(inflightTokens, rtok[p])
     IN IF m.ok
          THEN /\ inflightTokens' = m.set
               /\ marks' = NoteMark(marks, rtok[p], TRUE)
               /\ rpc' = [rpc EXCEPT ![p] = "bg_probe"]
               /\ UNCHANGED <<inflightUsers, rtok>>
          ELSE /\ inflightTokens' = clear_inflight(m.set, rtok[p])
               /\ marks' = NoteClear(NoteMark(marks, rtok[p], FALSE), rtok[p])
               /\ rtok' = [rtok EXCEPT ![p] = NoToken]
               /\ ProfileBegin(p, ruser[p])
  /\ UNCHANGED <<cache, users, ruser, jpc, jtokens, jtok, jerrors, bvars, avars, lvars, xvars>>

\* The probe of _validate_token_after_login returns: an invalid token is
\* evicted; the mark is cleared; then _update_user_profile starts.
BgProbeEnd(p, o) ==
  /\ rpc[p] = "bg_probe"
  /\ cache' = IF is_token_invalid(o) THEN invalidate_token_cache(cache, rtok[p]) ELSE cache
  /\ inflightTokens' = clear_inflight(inflightTokens, rtok[p])
  /\ marks' = NoteClear(marks, rtok[p])
  /\ rtok' = [rtok EXCEPT ![p] = NoToken]
  /\ ProfileBegin(p, ruser[p])
  /\ UNCHANGED <<users, ruser, jpc, jtokens, jtok, jerrors, bvars, avars, lvars, xvars>>

\* fetch_user_info_with_token returns (an empty result when it failed); the
\* record is rebuilt and save_users_async starts writing.
ProfileFetched(p, nick) ==
  /\ rpc[p] = "profile_fetch"
  /\ users' = [x \in DOMAIN users \cup {ruser[p]} |-> IF x = ruser[p] THEN nick ELSE users[x]]
  /\ rpc' = [rpc EXCEPT ![p] = "profile_save"]
  /\ UNCHANGED <<inflightTokens, inflightUsers, cache, ruser, rtok,
                 jpc, jtokens, jtok, jerrors, marks, bvars, avars, lvars, xvars>>

\* save_users_async returns or raises: the user mark is discarded.
ProfileSaved(p) ==
  /\ rpc[p] = "profile_save"
  /\ inflightUsers' = inflightUsers \ {ruser[p]}
  /\ rpc' = [rpc EXCEPT ![p] = "idle"]
  /\ UNCHANGED <<inflightTokens, cache, users, ruser, rtok,
                 jpc, jtokens, jtok, jerrors, marks, bvars, avars, lvars, xvars>>

\* The request's task is cancelled while suspended (CancelledError is no
\* Exception: only the finally blocks run).
RequestCancelled(p) ==
  /\ rpc[p] \in {"fast_probe", "login", "login_uid", "login_index", "bg_validate",
                 "bg_probe", "profile_fetch", "profile_save"}
  /\ rpc' = [rpc EXCEPT ![p] = "idle"]
  /\ rtok' = [rtok EXCEPT ![p] = NoToken]
  /\ IF rpc[p] \in {"fast_probe", "bg_probe"}
       THEN /\ inflightTokens' = clear_inflight(inflightTokens, rtok[p])
            /\ marks' = NoteClear(marks, rtok[p])
       ELSE UNCHANGED <<inflightTokens, marks>>
  /\ inflightUsers' = IF rpc[p] \in {"profile_fetch", "profile_save"}
                        THEN inflightUsers \ {ruser[p]} ELSE inflightUsers
  /\ UNCHANGED <<cache, users, ruser, jpc, jtokens, jtok, jerrors, bvars, avars, lvars, xvars>>

\* asyncio.sleep(interval) ends and cache_iter_prefix("token_index:") lists the keys.
SweepBegin ==
  /\ jpc = "sleeping"
  /\ jpc' = "sweeping"
  /\ jtokens' = {t \in Tokens : cache.index[t] # NoIndex}
  /\ jerrors' = 0
  /\ UNCHANGED <<inflightTokens, inflightUsers, cache, users, rpc, ruser, rtok,
                 jtok, marks, bvars, avars, lvars, xvars>>

\* The loop step with the try_mark_inflight call inside the try block: the
\* finally clears the mark also when the mark was refused.
SweepNextClears(t) ==
  /\ jpc = "sweeping"
  /\ t \in jtokens
  /\ jtokens' = jtokens \ {t}
  /\ LET m == try_mark_inflight(inflightTokens, t)
     IN IF m.ok
          THEN /\ inflightTokens' = m.set
               /\ marks' = NoteMark(marks, t, TRUE)
               /\ jpc' = "renew_probe" /\ jtok' = t
          ELSE /\ inflightTokens' = clear_inflight(m.set, t)
               /\ marks' = NoteClear(NoteMark(marks, t, FALSE), t)
               /\ UNCHANGED <<jpc, jtok>>
  /\ UNCHANGED <<inflightUsers, cache, users, rpc, ruser, rtok, jerrors, bvars, avars, lvars, xvars>>

\* The loop takes the next key: the token is marked and probed, or skipped
\* when its mark is held.
SweepNext(t) ==
  /\ jpc = "sweeping"
  /\ t \in jtokens
  /\ jtokens' = jtokens \ {t}
  /\ LET m == try_mark_inflight(inflightTokens, t)
     IN /\ inflightTokens' = m.set
        /\ marks' = NoteMark(marks, t, m.ok)
        /\ IF m.ok
             THEN jpc' = "renew_probe" /\ jtok' = t
             ELSE UNCHANGED <<jpc, jtok>>
  /\ UNCHANGED <<inflightUsers, cache, users, rpc, ruser, rtok, jerrors, bvars, avars, lvars, xvars>>

\* The sweep step with clear_inflight after the work instead of in a finally:
\* an exception skips it.
RenewProbeEndNoFinally(o) ==
  /\ jpc = "renew_probe"
  /\ LET st == check_token_status(o)
     IN IF st.raised
          THEN /\ jerrors' = jerrors + 1
               /\ UNCHANGED <<cache, inflightTokens, marks>>
          ELSE /\ cache' = IF st.invalid THEN invalidate_token_cache(cache, jtok)
                                         ELSE RenewEntries(cache, jtok)
               /\ inflightTokens' = clear_inflight(inflightTokens, jtok)
               /\ marks' = NoteClear(marks, jtok)
               /\ UNCHANGED jerrors
  /\ jpc' = "sweeping"
  /\ jtok' = NoToken
  /\ UNCHANGED <<inflightUsers, users, rpc, ruser, rtok, jtokens, bvars, avars, lvars, xvars>>

\* The sweep step with the per-token try/except missing: an exception is
\* caught by the outer except Exception only, which ends the sweep.
RenewProbeEndAborts(o) ==
  /\ jpc = "renew_probe"
  /\ LET st == check_token_status(o)
     IN IF st.raised
          THEN /\ jerrors' = jerrors + 1
               /\ jpc' = "sleeping"
               /\ jtokens' = {}
               /\ UNCHANGED cache
          ELSE /\ cache' = IF st.invalid THEN invalidate_token_cache(cache, jtok)
                                         ELSE RenewEntries(cache, jtok)
               /\ jpc' = "sweeping"
               /\ UNCHANGED <<jerrors, jtokens>>
  /\ inflightTokens' = clear_inflight(inflightTokens, jtok)
  /\ marks' = NoteClear(marks, jtok)
  /\ jtok' = NoToken
  /\ UNCHANGED <<inflightUsers, users, rpc, ruser, rtok, bvars, avars, lvars, xvars>>

\* The sweep step with no except clause at all: an exception leaves the
\* while loop and ends the task (the finally still clears the mark).
RenewProbeEndDies(o) ==
  /\ jpc = "renew_probe"
  /\ LET st == check_token_status(o)
     IN IF st.raised
          THEN /\ jpc' = "stopped"
               /\ jtokens' = {}
               /\ UNCHANGED <<cache, jerrors>>
          ELSE /\ cache' = IF st.invalid THEN invalidate_token_cache(cache, jtok)
                                         ELSE RenewEntries(cache, jtok)
               /\ jpc' = "sweeping"
               /\ UNCHANGED <<jerrors, jtokens>>
  /\ inflightTokens' = clear_inflight(inflightTokens, jtok)
  /\ marks' = NoteClear(marks, jtok)
  /\ jtok' = NoToken
  /\ UNCHANGED <<inflightUsers, users, rpc, ruser, rtok, bvars, avars, lvars, xvars>>

\* check_token_status returns or raises: refresh, eviction or errors += 1;
\* finally the mark is cleared.
RenewProbeEnd(o) ==
  /\ jpc = "renew_probe"
  /\ LET st == check_token_status(o)
     IN IF st.raised
          THEN jerrors' = jerrors + 1 /\ UNCHANGED cache
          ELSE /\ cache' = IF st.invalid THEN invalidate_token_cache(cache, jtok)
                                         ELSE RenewEntries(cache, jtok)
               /\ UNCHANGED jerrors
  /\ inflightTokens' = clear_inflight(inflightTokens, jtok)
  /\ marks' = NoteClear(marks, jtok)
  /\ jpc' = "sweeping"
  /\ jtok' = NoToken
  /\ UNCHANGED <<inflightUsers, users, rpc, ruser, rtok, jtokens, bvars, avars, lvars, xvars>>

\* The probe answered but the refresh or the eviction raised at its first
\* cache call (a backing-store error): except Exception counts it; finally
\* the mark is cleared.
RenewStepRaised ==
  /\ jpc = "renew_probe"
  /\ jerrors' = jerrors + 1
  /\ inflightTokens' = clear_inflight(inflightTokens, jtok)
  /\ marks' = NoteClear(marks, jtok)
  /\ jpc' = "sweeping"
  /\ jtok' = NoToken
  /\ UNCHANGED <<cache, inflightUsers, users, rpc, ruser, rtok, jtokens, bvars, avars, lvars, xvars>>

\* The key list is exhausted: asyncio.sleep(interval).
SweepEnd ==
  /\ jpc = "sweeping"
  /\ jtokens = {}
  /\ jpc' = "sleeping"
  /\ jerrors' = 0
  /\ UNCHANGED <<inflightTokens, inflightUsers, cache, users, rpc, ruser, rtok,
                 jtokens, jtok, marks, bvars, avars, lvars, xvars>>

\* The renewal task is cancelled (shutdown) while suspended.
RenewCancelled ==
  /\ jpc \in {"sleeping", "sweeping", "renew_probe"}
  /\ jpc' = "stopped"
  /\ jtokens' = {}
  /\ jtok' = NoToken
  /\ IF jpc = "renew_probe"
       THEN /\ inflightTokens' = clear_inflight(inflightTokens, jtok)
            /\ marks' = NoteClear(marks, jtok)
       ELSE UNCHANGED <<inflightTokens, marks>>
  /\ UNCHANGED <<inflightUsers, cache, users, rpc, ruser, rtok, jerrors, bvars, avars, lvars, xvars>>

\* A cache entry reaches its expiry time.
Expire(c2) ==
  /\ c2 # cache
  /\ cache' = c2
  /\ UNCHANGED <<inflightTokens, inflightUsers, users, rpc, ruser, rtok,
                 jpc, jtokens, jtok, jerrors, marks, bvars, avars, lvars, xvars>>

Expirations ==
  {[cache EXCEPT !.byUser[u] = NoToken] : u \in UserIds}
    \cup {[cache EXCEPT !.byUid[d] = NoToken] : d \in Uids}
    \cup {[cache EXCEPT !.index[t] = NoIndex] : t \in Tokens}
    \cup {[cache EXCEPT !.login[u] = NoToken] : u \in UserIds}

GatewayNext ==
  \/ \E p \in Reqs, u \in UserIds : SsoBegin(p, u)
  \/ \E p \in Reqs, o \in ProbeOutcomes : FastProbeEnd(p, o)
  \/ \E p \in Reqs, t \in Tokens \cup {NoToken} : LoginEnd(p, t)
  \/ \E p \in Reqs : LoginWriteUid(p)
  \/ \E p \in Reqs : LoginWriteIndex(p)
  \/ \E p \in Reqs : BgValidateBegin(p)
  \/ \E p \in Reqs, o \in ProbeOutcomes : BgProbeEnd(p, o)
  \/ \E p \in Reqs, n \in Nicknames : ProfileFetched(p, n)
  \/ \E p \in Reqs : ProfileSaved(p)
  \/ \E p \in Reqs : RequestCancelled(p)
  \/ SweepBegin
  \/ \E t \in Tokens : SweepNext(t)
  \/ \E o \in ProbeOutcomes : RenewProbeEnd(o)
  \/ RenewStepRaised
  \/ SweepEnd
  \/ RenewCancelled
  \/ \E c2 \in Expirations : Expire(c2)


----------------------------------------------------------------------------
(***************************************************************************)
(* The gateway with the upstream's tokens named in the order of their      *)
(* issue: a login returns t1 only while t2 is known nowhere, so that of    *)
(* two tokens known at once t2 is the one issued later.                    *)
(***************************************************************************)
Rank == [t \in Tokens |-> IF t = "t1" THEN 1 ELSE 2]

\* The token is in a cache entry or in the hands of a request or the sweep.
Known(t) ==
  \/ cache.index[t] # NoIndex
  \/ \E u \in UserIds : cache.byUser[u] = t
  \/ \E d \in Uids : cache.byUid[d] = t
  \/ \E q \in Reqs : rtok[q] = t
  \/ jtok = t
  \/ t \in jtokens

\* user_login returns the token the upstream has just issued.
LoginIssues(p, t) ==
  /\ \A t2 \in Tokens : Rank[t2] > Rank[t] => ~Known(t2)
  /\ LoginEnd(p, t)

TokensNext ==
  \/ \E p \in Reqs, u \in UserIds : SsoBegin(p, u)
  \/ \E p \in Reqs, o \in ProbeOutcomes : FastProbeEnd(p, o)
  \/ \E p \in Reqs, t \in Tokens : LoginIssues(p, t)
  \/ \E p \in Reqs : LoginEnd(p, NoToken)
  \/ \E p \in Reqs : LoginWriteUid(p)
  \/ \E p \in Reqs : LoginWriteIndex(p)
  \/ \E p \in Reqs : BgValidateBegin(p)
  \/ \E p \in Reqs, o \in ProbeOutcomes : BgProbeEnd(p, o)
  \/ \E p \in Reqs, n \in Nicknames : ProfileFetched(p, n)
  \/ \E p \in Reqs : ProfileSaved(p)
  \/ SweepBegin
  \/ \E t \in Tokens : SweepNext(t)
  \/ \E o \in ProbeOutcomes : RenewProbeEnd(o)
  \/ RenewStepRaised
  \/ SweepEnd
  \/ \E c2 \in Expirations : Expire(c2)

----------------------------------------------------------------------------
(***************************************************************************)
(* AsyncCache: the in-process mirror (_mem) and negative cache (_miss) in  *)
(* front of the backing store, and the TTLs the callers and the cache      *)
(* compute.  Expiry stamps and TTLs are in hundredths of a second, the     *)
(* clock "now" in whole seconds.  get and set suspend once, on the backing *)
(* store's thread; one action is the code between two suspensions.         *)
(***************************************************************************)
Max2(a, b) == IF a >= b THEN a ELSE b

\* A value a caller passes to set: a str or bytes.
Values == {[kind |-> k, text |-> t] : k \in {"str", "bytes"}, t \in Texts}

\* What the cache holds and get returns: bytes.
AsBytes(t) == [kind |-> "bytes", text |-> t]

\* Python's None as the answer of get.
None == [kind |-> "none", text |-> ""]

\* set: data = value.encode("utf-8") if isinstance(value, str) else value
encode(value) == IF value.kind = "str" THEN AsBytes(value.text) ELSE value

\* random.uniform(0.8, 1.2), in percent.
Jitters == {80, 120}

\* gateway ttl_with_jitter: max(5, int(base * j)), in seconds.
ttl_with_jitter(base, j) == Max2(5, (base * j) \div 100)

\* AsyncCache._ttl: max(5.0, float(base or 60.0) * j), in hundredths of a second.
ttl(base, j) == Max2(500, (IF base = 0 THEN 60 ELSE base) * j)

\* int(ttl), the "expire" argument handed to the backing store, in hundredths.
int(t) == (t \div 100) * 100

\* time.time() in hundredths of a second.
Now100 == now * 100

NoEntry == [data |-> None, exp |-> 0]

\* self._mem.get(key) is an entry that has not expired at time t.
MemLive(k, t) == amem[k] # NoEntry /\ amem[k].exp > t

\* self._miss.get(key) is an entry that has not expired at time t.
MissLive(k, t) == amiss[k] # 0 /\ amiss[k] > t

\* self._cache.get(key): the backing store answers None for an expired entry.
disk_get(k) == IF adisk[k] # NoEntry /\ adisk[k].exp > Now100 THEN adisk[k].data ELSE None

\* The answer of a get(key) that is called now and runs without interleaving.
get_now(k) ==
  IF MissLive(k, Now100) THEN None
  ELSE IF MemLive(k, Now100) THEN amem[k].data
  ELSE disk_get(k)

CacheInit ==
  /\ amem = [k \in Keys |-> NoEntry]
  /\ amiss = [k \in Keys |-> 0]
  /\ adisk = [k \in Keys |-> NoEntry]
  /\ opc = [o \in Ops |-> "idle"]
  /\ okey = [o \in Ops |-> CHOOSE k \in Keys : TRUE]
  /\ odata = [o \in Ops |-> None]
  /\ ottl = [o \in Ops |-> 0]
  /\ onow = [o \in Ops |-> 0]
  /\ glast = [k \in Keys |-> [by |-> "none", data |-> None, exp |-> 0, prev |-> 0]]

\* get(key) up to its suspension on the backing store.  A live negative entry
\* or a live mirror entry answers at once and changes nothing.
get_suspend(o, k) ==
  /\ opc[o] = "idle"
  /\ ~MissLive(k, Now100)
  /\ ~MemLive(k, Now100)
  /\ opc' = [opc EXCEPT ![o] = "get_wait"]
  /\ okey' = [okey EXCEPT ![o] = k]
  /\ onow' = [onow EXCEPT ![o] = Now100]
  /\ UNCHANGED <<amem, amiss, adisk, odata, ottl, glast>>

GetBegin(o, k) == get_suspend(o, k) /\ UNCHANGED <<bvars, gvars, lvars, xvars>>

\* get(key) from the backing store's answer on.  "now" was read before the
\* suspension.
get_resume(o, j) ==
  /\ opc[o] = "get_wait"
  /\ LET k == okey[o]
         val == disk_get(k)
     IN IF val = None
        THEN /\ amiss' = [amiss EXCEPT ![k] = onow[o] + ttl(15, j)]
             /\ amem' = amem
        ELSE /\ amem' = [amem EXCEPT ![k] = [data |-> val, exp |-> onow[o] + ttl(60, j)]]
             /\ amiss' = amiss
  /\ opc' = [opc EXCEPT ![o] = "idle"]
  /\ onow' = [onow EXCEPT ![o] = 0]
  /\ UNCHANGED <<adisk, okey, odata, ottl, glast>>

GetEnd(o, j) == get_resume(o, j) /\ UNCHANGED <<bvars, gvars, lvars, xvars>>

\* set(key, value, ex) up to its suspension on the backing store.
set_suspend(o, k, value, ex, j) ==
  /\ opc[o] = "idle"
  /\ LET data == encode(value)
         t == ttl(ex, j)
     IN /\ amem' = [amem EXCEPT ![k] = [data |-> data, exp |-> Now100 + t]]
        /\ amiss' = [amiss EXCEPT ![k] = 0]
        /\ odata' = [odata EXCEPT ![o] = data]
        /\ ottl' = [ottl EXCEPT ![o] = t]
        /\ glast' = [glast EXCEPT ![k] =
                       [by |-> o, data |-> data, exp |-> Now100 + t,
                        prev |-> IF glast[k].data = data /\ glast[k].exp > Now100
                                 THEN glast[k].exp ELSE 0]]
  /\ opc' = [opc EXCEPT ![o] = "set_wait"]
  /\ okey' = [okey EXCEPT ![o] = k]
  /\ UNCHANGED <<adisk, onow>>

\* A write of a token entry: the caller passes ex = ttl_with_jitter(TOKEN_TTL).
SetBegin(o, k, value, j1, j2) ==
  /\ set_suspend(o, k, value, ttl_with_jitter(TOKEN_TTL, j1), j2)
  /\ UNCHANGED <<bvars, gvars, lvars, xvars>>

\* set: the backing store has written the entry, with expire = int(ttl)
\* counted from the time of its write.
set_resume(o) ==
  /\ opc[o] = "set_wait"
  /\ LET k == okey[o]
         e == Now100 + int(ottl[o])
     IN /\ adisk' = [adisk EXCEPT ![k] = [data |-> odata[o], exp |-> e]]
        /\ glast' = IF glast[k].by = o
                    THEN [glast EXCEPT ![k].exp = Max2(@, e)]
                    ELSE glast
  /\ opc' = [opc EXCEPT ![o] = "idle"]
  /\ odata' = [odata EXCEPT ![o] = None]
  /\ ottl' = [ottl EXCEPT ![o] = 0]
  /\ UNCHANGED <<amem, amiss, okey, onow>>

SetEnd(o) == set_resume(o) /\ UNCHANGED <<bvars, gvars, lvars, xvars>>

\* Time passes while the cache is in use.
CacheTick(d) ==
  /\ now + d <= MaxClock
  /\ now' = now + d
  /\ UNCHANGED <<hvars, gvars, avars, lvars, xvars>>

CacheNext ==
  \/ \E o \in Ops, k \in Keys : GetBegin(o, k)
  \/ \E o \in Ops, j \in Jitters : GetEnd(o, j)
  \/ \E o \in Ops, k \in Keys, value \in Values, j1 \in Jitters, j2 \in Jitters :
       SetBegin(o, k, value, j1, j2)
  \/ \E o \in Ops : SetEnd(o)
  \/ \E d \in TickSteps : CacheTick(d)


----------------------------------------------------------------------------
(***************************************************************************)
(* AsyncCache.delete and clear_cache, and the cache's calls set against a  *)
(* one-tier map.  delete and clear_cache suspend once, on the backing      *)
(* store's thread, like get and set.  kref and kclr record what the calls  *)
(* made so far leave in a map with one tier.                               *)
(***************************************************************************)
\* The ex arguments of the set calls.
KvExs == {TOKEN_TTL}

\* The values of the set calls: a str and a bytes.
KvValues == {[kind |-> "str", text |-> "v1"], [kind |-> "bytes", text |-> "v2"]}

\* The clock's step while the cache's calls are followed, and its last value
\* with overlapping calls and in a sequential history.
KvTickSeconds == 5
MaxKvClock == 5
MaxSeqClock == 15

Min2(a, b) == IF a <= b THEN a ELSE b

NoRef == [data |-> None, lo |-> 0, hi |-> 0, del |-> "none"]

\* A set(key) has started and has not returned.
SetInFlight(k) == \E o \in Ops : opc[o] = "set_wait" /\ okey[o] = k

KvInit ==
  /\ kref = [k \in Keys |-> NoRef]
  /\ kclr = [k \in Keys |-> "none"]

KvFrame == UNCHANGED <<bvars, gvars, lvars, mvars, svars, wvars, pvars>>

\* delete(key) up to its suspension: the mirror entry and the negative entry
\* are removed.
delete_suspend(o, k) ==
  /\ opc[o] = "idle"
  /\ amem' = [amem EXCEPT ![k] = NoEntry]
  /\ amiss' = [amiss EXCEPT ![k] = 0]
  /\ opc' = [opc EXCEPT ![o] = "delete_wait"]
  /\ okey' = [okey EXCEPT ![o] = k]
  /\ UNCHANGED <<adisk, odata, ottl, onow, glast>>

\* delete: the backing store has removed the entry.
delete_resume(o) ==
  /\ opc[o] = "delete_wait"
  /\ adisk' = [adisk EXCEPT ![okey[o]] = NoEntry]
  /\ opc' = [opc EXCEPT ![o] = "idle"]
  /\ UNCHANGED <<amem, amiss, okey, odata, ottl, onow, glast>>

\* clear_cache() up to its suspension: it takes the AsyncCache and the
\* backing store from the container and hands the store's clear to a thread.
clear_suspend(o) ==
  /\ opc[o] = "idle"
  /\ opc' = [opc EXCEPT ![o] = "clear_wait"]
  /\ UNCHANGED <<amem, amiss, adisk, okey, odata, ottl, onow, glast>>

\* clear_cache: the backing store has removed every entry.
clear_resume(o) ==
  /\ opc[o] = "clear_wait"
  /\ adisk' = [k \in Keys |-> NoEntry]
  /\ opc' = [opc EXCEPT ![o] = "idle"]
  /\ UNCHANGED <<amem, amiss, okey, odata, ottl, onow, glast>>

KvGetBegin(o, k) == get_suspend(o, k) /\ UNCHANGED kvars /\ KvFrame

KvGetEnd(o, j) == get_resume(o, j) /\ UNCHANGED kvars /\ KvFrame

\* set(key, value, ex): the one-tier map holds the data from the call on.
KvSetBegin(o, k, value, ex, j) ==
  /\ set_suspend(o, k, value, ex, j)
  /\ kref' = [kref EXCEPT ![k] = [data |-> encode(value), lo |-> Now100 + ttl(ex, j),
                                  hi |-> Now100 + ttl(ex, j), del |-> "none"]]
  /\ kclr' = [kclr EXCEPT ![k] = "none"]
  /\ KvFrame

\* The backing store's expiry of the entry is counted from its write.
KvSetEnd(o) ==
  /\ set_resume(o)
  /\ kref' = IF glast[okey[o]].by = o
             THEN [kref EXCEPT ![okey[o]].lo = Min2(@, Now100 + int(ottl[o])),
                               ![okey[o]].hi = Max2(@, Now100 + int(ottl[o]))]
             ELSE kref
  /\ UNCHANGED kclr
  /\ KvFrame

\* A delete is followed from its call to its return when no set of the key
\* is under way at the call; a set that starts later ends the following.
KvDeleteBegin(o, k) ==
  /\ delete_suspend(o, k)
  /\ kref' = [kref EXCEPT ![k].del = IF SetInFlight(k) THEN "none" ELSE "running"]
  /\ UNCHANGED kclr
  /\ KvFrame

KvDeleteEnd(o) ==
  /\ delete_resume(o)
  /\ kref' = [kref EXCEPT ![okey[o]].del = IF @ = "running" THEN "returned" ELSE @]
  /\ UNCHANGED kclr
  /\ KvFrame

\* A clear is followed in the same way, for every key.
KvClearBegin(o) ==
  /\ clear_suspend(o)
  /\ kclr' = [k \in Keys |-> IF SetInFlight(k) THEN "none" ELSE "running"]
  /\ UNCHANGED kref
  /\ KvFrame

KvClearEnd(o) ==
  /\ clear_resume(o)
  /\ kclr' = [k \in Keys |-> IF kclr[k] = "running" THEN "done" ELSE kclr[k]]
  /\ UNCHANGED kref
  /\ KvFrame

KvTick ==
  /\ now + KvTickSeconds <= MaxKvClock
  /\ now' = now + KvTickSeconds
  /\ UNCHANGED <<hvars, gvars, avars, lvars, xvars>>

SeqTick ==
  /\ now + KvTickSeconds <= MaxSeqClock
  /\ now' = now + KvTickSeconds
  /\ UNCHANGED <<hvars, gvars, avars, lvars, xvars>>

\* A call of a sequential history starts when the call before it has returned.
AllIdle == \A o \in Ops : opc[o] = "idle"

SeqGetBegin(o, k) == AllIdle /\ KvGetBegin(o, k)

SeqSetBegin(o, k, value, ex, j) == AllIdle /\ KvSetBegin(o, k, value, ex, j)

SeqDeleteBegin(o, k) == AllIdle /\ KvDeleteBegin(o, k)

\* get, set and delete calls as they return.
KvReturns ==
  \/ \E o \in Ops, j \in Jitters : KvGetEnd(o, j)
  \/ \E o \in Ops : KvSetEnd(o)
  \/ \E o \in Ops : KvDeleteEnd(o)

\* Arbitrary callers: the calls overlap.
KvNext ==
  \/ \E o \in Ops, k \in Keys : KvGetBegin(o, k)
  \/ \E o \in Ops, k \in Keys, value \in KvValues, ex \in KvExs, j \in Jitters :
       KvSetBegin(o, k, value, ex, j)
  \/ \E o \in Ops, k \in Keys : KvDeleteBegin(o, k)
  \/ KvReturns
  \/ \E o \in Ops : KvClearBegin(o)
  \/ \E o \in Ops : KvClearEnd(o)
  \/ KvTick

\* Sequential histories of get, set and delete.
SeqNext ==
  \/ \E o \in Ops, k \in Keys : SeqGetBegin(o, k)
  \/ \E o \in Ops, k \in Keys, value \in KvValues, ex \in KvExs, j \in Jitters :
       SeqSetBegin(o, k, value, ex, j)
  \/ \E o \in Ops, k \in Keys : SeqDeleteBegin(o, k)
  \/ KvReturns
  \/ SeqTick


----------------------------------------------------------------------------
(***************************************************************************)
(* user_login.  The callers are the cache's callers; the one key of the    *)
(* cache is the call's login:{userid}:{md5} entry.  A login result is      *)
(* named by its JSON text.  Two variants exist in the repository: the one  *)
(* with the login cache (api/user_auth) and the later one without          *)
(* (fast_easilogin/api/user_auth).                                         *)
(***************************************************************************)
LoginKey == CHOOSE k \in Keys : TRUE

\* What the upstream login call, and the probe of its token, came to.
LoginOutcomes == {"ok", "no_token", "offline", "probe_invalid", "failed"}

\* HTTPException(status_code=401) and HTTPException(status_code=504).
HTTP401 == [kind |-> "error", text |-> "401"]
HTTP504 == [kind |-> "error", text |-> "504"]

\* ex = max(30, int(random.uniform(0.8, 1.2) * LOGIN_TTL))
login_ex(j) == Max2(30, (j * LOGIN_TTL) \div 100)

\* The login entry written last has not expired.
EntryLive == glast[LoginKey].by # "none" /\ glast[LoginKey].exp > Now100

LoginInit ==
  /\ lpc = [c \in Ops |-> "idle"]
  /\ lres = [c \in Ops |-> None]
  /\ lwho = [c \in Ops |-> NoUserId]
  /\ luser = [c \in Ops |-> CHOOSE u \in Users : TRUE]
  /\ uactive = [u \in Users |-> TRUE]
  /\ cfgDisable = FALSE

\* user_login up to its first suspension: cached = await rc.get(login key).
\* A live negative entry answers None at once and the upstream call starts; a
\* live mirror entry answers the cached result, which is returned.
LoginBegin(c) ==
  /\ lpc[c] = "idle"
  /\ opc[c] = "idle"
  /\ IF MissLive(LoginKey, Now100)
     THEN /\ lpc' = [lpc EXCEPT ![c] = "upstream"]
          /\ UNCHANGED <<lres, avars>>
     ELSE IF MemLive(LoginKey, Now100)
     THEN /\ lpc' = [lpc EXCEPT ![c] = "returned"]
          /\ lres' = [lres EXCEPT ![c] = amem[LoginKey].data]
          /\ UNCHANGED avars
     ELSE /\ get_suspend(c, LoginKey)
          /\ lpc' = [lpc EXCEPT ![c] = "get_wait"]
          /\ UNCHANGED lres
  /\ UNCHANGED <<bvars, gvars, dvars, xvars>>

\* The backing store has answered the get: a value is returned as the login
\* result, None starts the upstream call.
LoginGetEnd(c, j) ==
  /\ lpc[c] = "get_wait"
  /\ get_resume(c, j)
  /\ LET val == disk_get(LoginKey)
     IN IF val = None
        THEN /\ lpc' = [lpc EXCEPT ![c] = "upstream"]
             /\ UNCHANGED lres
        ELSE /\ lpc' = [lpc EXCEPT ![c] = "returned"]
             /\ lres' = [lres EXCEPT ![c] = val]
  /\ UNCHANGED <<bvars, gvars, dvars, xvars>>

\* The upstream call and the probe of its token are over.  Without a token,
\* with an offline token, with a token the probe calls invalid, or when
\* anything raised, the call raises 401; else the result is written to the
\* cache.
LoginUpstreamEnd(c, out, t, j1, j2) ==
  /\ lpc[c] = "upstream"
  /\ IF out = "ok"
     THEN /\ set_suspend(c, LoginKey, [kind |-> "str", text |-> t], login_ex(j1), j2)
          /\ lpc' = [lpc EXCEPT ![c] = "set_wait"]
          /\ UNCHANGED lres
     ELSE /\ lpc' = [lpc EXCEPT ![c] = "returned"]
          /\ lres' = [lres EXCEPT ![c] = HTTP401]
          /\ UNCHANGED avars
  /\ UNCHANGED <<bvars, gvars, dvars, xvars>>

\* rc.set has returned: user_login returns the result.
LoginSetEnd(c) ==
  /\ lpc[c] = "set_wait"
  /\ lres' = [lres EXCEPT ![c] = odata[c]]
  /\ set_resume(c)
  /\ lpc' = [lpc EXCEPT ![c] = "returned"]
  /\ UNCHANGED <<bvars, gvars, dvars, xvars>>

\* The later user_login, called for the account of user u with or without
\* the _userid argument: no cache lookup, the upstream call at once.
NewLoginBegin(c, u, w) ==
  /\ lpc[c] = "idle"
  /\ opc[c] = "idle"
  /\ w \in {u, NoUserId}
  /\ lpc' = [lpc EXCEPT ![c] = "upstream_new"]
  /\ lwho' = [lwho EXCEPT ![c] = w]
  /\ luser' = [luser EXCEPT ![c] = u]
  /\ UNCHANGED <<lres, uactive, cfgDisable, avars, bvars, gvars, xvars>>

\* should_disable = (_userid is None) or cfg.Global.enable_password_error_disable
should_disable(w) == w = NoUserId \/ cfgDisable

\* The later user_login with the auto-disable block run for a failed request
\* as well as for a response without a token.
NewLoginEndDisablesOnError(c, out, t) ==
  /\ lpc[c] = "upstream_new"
  /\ lpc' = [lpc EXCEPT ![c] = "returned"]
  /\ lres' = [lres EXCEPT ![c] = IF out = "failed" THEN HTTP504
                                 ELSE IF out = "no_token" THEN HTTP401
                                 ELSE AsBytes(t)]
  /\ uactive' = IF out \in {"no_token", "failed"} /\ should_disable(lwho[c]) /\ uactive[luser[c]]
                THEN [uactive EXCEPT ![luser[c]] = FALSE]
                ELSE uactive
  /\ UNCHANGED <<lwho, luser, cfgDisable, avars, bvars, gvars, xvars>>

\* The later user_login: a failed request raises 504, a response without a
\* token 401, after the user's record was made inactive if should_disable;
\* every other response is returned as the result.
NewLoginEnd(c, out, t) ==
  /\ lpc[c] = "upstream_new"
  /\ lpc' = [lpc EXCEPT ![c] = "returned"]
  /\ lres' = [lres EXCEPT ![c] = IF out = "failed" THEN HTTP504
                                 ELSE IF out = "no_token" THEN HTTP401
                                 ELSE AsBytes(t)]
  /\ uactive' = IF out = "no_token" /\ should_disable(lwho[c]) /\ uactive[luser[c]]
                THEN [uactive EXCEPT ![luser[c]] = FALSE]
                ELSE uactive
  /\ UNCHANGED <<lwho, luser, cfgDisable, avars, bvars, gvars, xvars>>

\* The caller has taken the result.
LoginReturn(c) ==
  /\ lpc[c] = "returned"
  /\ lpc' = [lpc EXCEPT ![c] = "idle"]
  /\ lres' = [lres EXCEPT ![c] = None]
  /\ lwho' = [lwho EXCEPT ![c] = NoUserId]
  /\ UNCHANGED <<luser, uactive, cfgDisable, avars, bvars, gvars, xvars>>

\* Time passes between logins, LoginTickSeconds at a time.
LoginTick ==
  /\ now + LoginTickSeconds <= MaxLoginClock
  /\ now' = now + LoginTickSeconds
  /\ UNCHANGED <<hvars, gvars, avars, lvars, xvars>>

LoginNext ==
  \/ \E c \in Ops : LoginBegin(c)
  \/ \E c \in Ops, j \in Jitters : LoginGetEnd(c, j)
  \/ \E c \in Ops, out \in LoginOutcomes, t \in Texts, j1 \in Jitters, j2 \in Jitters :
       LoginUpstreamEnd(c, out, t, j1, j2)
  \/ \E c \in Ops : LoginSetEnd(c)
  \/ \E c \in Ops : LoginReturn(c)
  \/ LoginTick

\* The operator edits appsettings.json; user_login loads it on every failure.
SetPolicy(b) ==
  /\ cfgDisable # b
  /\ cfgDisable' = b
  /\ UNCHANGED <<lpc, lres, lwho, luser, uactive, avars, bvars, gvars, xvars>>

NewLoginNext ==
  \/ \E c \in Ops, u \in Users, w \in Users \cup {NoUserId} : NewLoginBegin(c, u, w)
  \/ \E c \in Ops, out \in LoginOutcomes, t \in Texts : NewLoginEnd(c, out, t)
  \/ \E c \in Ops : LoginReturn(c)
  \/ \E b \in BOOLEAN : SetPolicy(b)

----------------------------------------------------------------------------
(***************************************************************************)
(* The SSO requests alone, with a user store that changes under them:      *)
(* load_users reads users.json as it is at the time of each call.          *)
(***************************************************************************)

\* The record of u is no longer in users.json (the file was edited, or a
\* whole-map save of a map loaded before the record was added has landed).
UserRemoved(u) ==
  /\ u \in DOMAIN users
  /\ users' = [x \in DOMAIN users \ {u} |-> users[x]]
  /\ UNCHANGED <<inflightTokens, inflightUsers, cache, rpc, ruser, rtok,
                 jpc, jtokens, jtok, jerrors, marks, bvars, avars, lvars, xvars>>

\* POST /savedata with a SaveUserBody: the record of u is created or replaced.
SaveUser(u, nick) ==
  /\ IF u \in DOMAIN users THEN users[u] # nick ELSE TRUE
  /\ users' = [x \in DOMAIN users \cup {u} |-> IF x = u THEN nick ELSE users[x]]
  /\ UNCHANGED <<inflightTokens, inflightUsers, cache, rpc, ruser, rtok,
                 jpc, jtokens, jtok, jerrors, marks, bvars, avars, lvars, xvars>>

\* save_user has saved the record of u and its background task
\* _update_user_profile starts, with key_local = u.
SaveRefreshBegin(p, u) ==
  /\ rpc[p] = "idle"
  /\ ProfileBegin(p, u)
  /\ ruser' = [ruser EXCEPT ![p] = IF rpc'[p] = "idle" THEN @ ELSE u]
  /\ UNCHANGED <<inflightTokens, cache, users, rtok,
                 jpc, jtokens, jtok, jerrors, marks, bvars, avars, lvars, xvars>>

\* user_login, lines 241-242: the upstream answered with a usable token and
\* the login record is cached.
LoginStored(p, tok) ==
  /\ rpc[p] = "login"
  /\ rtok[p] = NoToken
  /\ rtok' = [rtok EXCEPT ![p] = tok]
  /\ cache' = [cache EXCEPT !.login[ruser[p]] = tok]
  /\ UNCHANGED <<inflightTokens, inflightUsers, users, rpc, ruser,
                 jpc, jtokens, jtok, jerrors, marks, bvars, avars, lvars, xvars>>

SsoNext ==
  \/ \E p \in Reqs, u \in UserIds : SsoBegin(p, u)
  \/ \E p \in Reqs, o \in ProbeOutcomes : FastProbeEnd(p, o)
  \/ \E p \in Reqs, t \in Tokens : LoginStored(p, t)
  \/ \E p \in Reqs : LoginEnd(p, rtok[p])
  \/ \E p \in Reqs : LoginWriteUid(p)
  \/ \E p \in Reqs : LoginWriteIndex(p)
  \/ \E p \in Reqs : BgValidateBegin(p)
  \/ \E p \in Reqs, o \in ProbeOutcomes : BgProbeEnd(p, o)
  \/ \E p \in Reqs, n \in Nicknames : ProfileFetched(p, n)
  \/ \E p \in Reqs : ProfileSaved(p)
  \/ \E u \in Users : UserRemoved(u)
  \/ \E u \in Users, n \in Nicknames : SaveUser(u, n)
  \/ \E c2 \in Expirations : Expire(c2)
  \/ \E p \in Reqs, u \in UserIds : SaveRefreshBegin(p, u)


----------------------------------------------------------------------------
(***************************************************************************)
(* InMemoryKVCache: the capacity-bounded in-process cache of user data.    *)
(* Every method runs under the RLock without a suspension point: one       *)
(* action is one call.                                                     *)
(***************************************************************************)
MemKey(prefix, rest) == [prefix |-> prefix, rest |-> rest]
MemKeys == {MemKey("agg:", "u1"), MemKey("agg:", "u2"),
            MemKey("userinfo:last:", "u1"), MemKey("login:", "u1")}
MemValues == {[kind |-> "str", text |-> "v1"], [kind |-> "bytes", text |-> "v2"]}
MemExs == {0, 2}
MemCapacity == 2
MaxMemClock == 2
MaxTouches == 5

\* self._capacity = max(1, int(capacity or 1))
capacity == Max2(1, MemCapacity)

\* _allowed: key.startswith(("agg:", "userinfo:last:"))
allowed(key) == key.prefix \in {"agg:", "userinfo:last:"}

NoExp == 0
NoTouch == [stamp |-> 0, by |-> "none"]

KeysOf(d) == {d[i].key : i \in 1..Len(d)}
ItemOf(d, k) == d[CHOOSE i \in 1..Len(d) : d[i].key = k]
\* del self._data[key]
Without(d, k) == SelectSeq(d, LAMBDA e : e.key # k)
\* self._data.move_to_end(key, last=True)
move_to_end(d, k) == Append(Without(d, k), ItemOf(d, k))

\* while len(self._data) > self._capacity: self._data.popitem(last=False)
RECURSIVE Trim(_, _)
Trim(d, c) == IF Len(d) > c THEN Trim(Tail(d), c) ELSE d

MemInit ==
  /\ mdata = << >>
  /\ mtouch = [k \in MemKeys |-> NoTouch]
  /\ mstamp = 0
  /\ mevicted = {}

MemFrame == UNCHANGED <<bvars, gvars, avars, lvars, svars, wvars, kvars, pvars>>

\* get without move_to_end: a hit leaves the order as it is.
MemGetNoMove(k) ==
  /\ k \in KeysOf(mdata)
  /\ mstamp < MaxTouches
  /\ LET exp == ItemOf(mdata, k).exp
     IN IF exp # NoExp /\ exp <= now
          THEN /\ mdata' = Without(mdata, k)
               /\ UNCHANGED <<mtouch, mstamp>>
          ELSE /\ mdata' = mdata
               /\ mstamp' = mstamp + 1
               /\ mtouch' = [mtouch EXCEPT ![k] = [stamp |-> mstamp + 1, by |-> "get"]]
  /\ mevicted' = {}
  /\ MemFrame

\* get of a stored key: an expired item is deleted (None is returned), a live
\* one is moved to the end and returned.  (A key that is not stored: None.)
MemGet(k) ==
  /\ k \in KeysOf(mdata)
  /\ mstamp < MaxTouches
  /\ LET exp == ItemOf(mdata, k).exp
     IN IF exp # NoExp /\ exp <= now
          THEN /\ mdata' = Without(mdata, k)
               /\ UNCHANGED <<mtouch, mstamp>>
          ELSE /\ mdata' = move_to_end(mdata, k)
               /\ mstamp' = mstamp + 1
               /\ mtouch' = [mtouch EXCEPT ![k] = [stamp |-> mstamp + 1, by |-> "get"]]
  /\ mevicted' = {}
  /\ MemFrame

\* set: a key that is not allowed is ignored; the item goes to the end and
\* items are popped from the front while there are more than capacity.
MemSet(k, value, ex) ==
  /\ mstamp < MaxTouches
  /\ IF ~allowed(k)
       THEN UNCHANGED <<mdata, mtouch, mstamp, mevicted>>
       ELSE LET data == encode(value)
                exp == IF ex > 0 THEN now + ex ELSE NoExp
                put == Append(Without(mdata, k), [key |-> k, val |-> data, exp |-> exp])
            IN /\ mdata' = Trim(put, capacity)
               /\ mevicted' = KeysOf(put) \ KeysOf(Trim(put, capacity))
               /\ mstamp' = mstamp + 1
               /\ mtouch' = [mtouch EXCEPT ![k] = [stamp |-> mstamp + 1, by |-> "set"]]
  /\ MemFrame

\* delete
MemDelete(k) ==
  /\ k \in KeysOf(mdata)
  /\ mdata' = Without(mdata, k)
  /\ mevicted' = {}
  /\ UNCHANGED <<mtouch, mstamp>>
  /\ MemFrame

\* clear
MemClear ==
  /\ mdata # << >>
  /\ mdata' = << >>
  /\ mevicted' = {}
  /\ UNCHANGED <<mtouch, mstamp>>
  /\ MemFrame

\* time.time() advances.
MemTick ==
  /\ now < MaxMemClock
  /\ now' = now + 1
  /\ UNCHANGED <<hvars, gvars, avars, lvars, xvars>>

MemNext ==
  \/ \E k \in MemKeys : MemGet(k)
  \/ \E k \in MemKeys, value \in MemValues, ex \in MemExs : MemSet(k, value, ex)
  \/ \E k \in MemKeys : MemDelete(k)
  \/ MemClear
  \/ MemTick

----------------------------------------------------------------------------
(***************************************************************************)
(* Shutdown: lifespan's finally block (main.py) and _shutdown (api.py)     *)
(* release the HTTP client and the cache and cancel the renewal task, the  *)
(* task and the requests running on the same event loop meanwhile.  One    *)
(* action is the code up to the return of an awaited call.                 *)
(***************************************************************************)
ShutdownInit ==
  /\ spc = "serving"
  /\ httpOpen = TRUE
  /\ cacheOpen = TRUE

ClearedCache ==
  [byUser |-> [u \in UserIds |-> NoToken],
   byUid |-> [d \in Uids |-> NoToken],
   index |-> [t \in Tokens |-> NoIndex],
   login |-> [u \in UserIds |-> NoToken]]

\* await close_http_client(): client.aclose() has returned, _client = None.
ShutdownCloseHttp ==
  /\ spc = "serving"
  /\ spc' = "clear_cache"
  /\ httpOpen' = FALSE
  /\ UNCHANGED <<cacheOpen, bvars, gvars, avars, lvars, mvars, wvars, kvars, pvars>>

\* await clear_cache(): every entry of the backing store is removed.
ShutdownClearCache ==
  /\ spc = "clear_cache"
  /\ spc' = "close_cache"
  /\ cache' = ClearedCache
  /\ UNCHANGED <<httpOpen, cacheOpen, inflightTokens, inflightUsers, users, rpc, ruser, rtok,
                 jpc, jtokens, jtok, jerrors, marks, bvars, avars, lvars, mvars, wvars, kvars, pvars>>

\* await close_cache(): the backing store is closed and dropped.
ShutdownCloseCache ==
  /\ spc = "close_cache"
  /\ spc' = "cancel"
  /\ cacheOpen' = FALSE
  /\ UNCHANGED <<httpOpen, bvars, gvars, avars, lvars, mvars, wvars, kvars, pvars>>

\* t.cancel(): CancelledError is thrown into the task when it is resumed next.
ShutdownCancel ==
  /\ spc = "cancel"
  /\ spc' = "cancelled"
  /\ UNCHANGED <<httpOpen, cacheOpen, bvars, gvars, avars, lvars, mvars, wvars, kvars, pvars>>

\* A step of token_renew_job that uses the cache or the HTTP client.  With
\* the client closed a probe ends with an error.
SweepStep ==
  \/ SweepBegin
  \/ \E t \in Tokens : SweepNext(t)
  \/ \E o \in ProbeOutcomes : (httpOpen \/ o \in ProbeErrors) /\ RenewProbeEnd(o)
  \/ RenewStepRaised

\* A request is served (until the shutdown begins).
Serving ==
  /\ spc = "serving"
  /\ \/ \E u \in UserIds : SsoBegin("r1", u)
     \/ \E o \in ProbeOutcomes : FastProbeEnd("r1", o)
     \/ \E t \in Tokens \cup {NoToken} : LoginEnd("r1", t)
     \/ LoginWriteUid("r1")
     \/ LoginWriteIndex("r1")
     \/ BgValidateBegin("r1")
     \/ \E o \in ProbeOutcomes : BgProbeEnd("r1", o)
     \/ \E n \in Nicknames : ProfileFetched("r1", n)
     \/ ProfileSaved("r1")

\* token_renew_job is resumed by the return of the call it awaits.
JobStep == spc # "cancelled" /\ (SweepStep \/ SweepEnd)

\* token_renew_job is resumed with the CancelledError of t.cancel().
TaskCancelled == spc = "cancelled" /\ RenewCancelled

ShutdownNext ==
  \/ Serving
  \/ JobStep
  \/ TaskCancelled
  \/ ShutdownCloseHttp
  \/ ShutdownClearCache
  \/ ShutdownCloseCache
  \/ ShutdownCancel

----------------------------------------------------------------------------
(***************************************************************************)
(* save_users_async and its expected_mtime marker.  The write runs on a    *)
(* thread (asyncio.to_thread): one action is the call up to the start of   *)
(* the write, another the write's end.                                     *)
(***************************************************************************)
MaxMtime == 4
NoMarker == 0

StoreInit ==
  /\ umtime = 1
  /\ wpc = [c \in Ops |-> "idle"]
  /\ wexp = [c \in Ops |-> NoMarker]
  /\ wdata = [c \in Ops |-> "n0"]
  /\ wres = [c \in Ops |-> "none"]

StoreFrame ==
  UNCHANGED <<inflightTokens, inflightUsers, cache, rpc, ruser, rtok, jpc, jtokens, jtok,
              jerrors, marks, bvars, avars, lvars, mvars, svars, kvars, pvars>>

\* get_users_mtime(): the caller takes the marker.
MarkerTaken(c) ==
  /\ wpc[c] = "idle"
  /\ wexp[c] # umtime
  /\ wexp' = [wexp EXCEPT ![c] = umtime]
  /\ UNCHANGED <<users, umtime, wpc, wdata, wres>>
  /\ StoreFrame

\* The caller drops its marker: its next save passes expected_mtime=None.
MarkerDropped(c) ==
  /\ wpc[c] = "idle"
  /\ wexp[c] # NoMarker
  /\ wexp' = [wexp EXCEPT ![c] = NoMarker]
  /\ UNCHANGED <<users, umtime, wpc, wdata, wres>>
  /\ StoreFrame

\* save_users_async of shared/storage.py up to the start of the write: with a
\* marker that differs from the file's mtime it returns False.
StorageSaveBegin(c, nick) ==
  /\ wpc[c] = "idle"
  /\ umtime < MaxMtime
  /\ IF wexp[c] # NoMarker /\ umtime # wexp[c]
       THEN /\ wres' = [wres EXCEPT ![c] = "false"]
            /\ UNCHANGED <<wpc, wdata>>
       ELSE /\ wpc' = [wpc EXCEPT ![c] = "writing"]
            /\ wdata' = [wdata EXCEPT ![c] = nick]
            /\ wres' = [wres EXCEPT ![c] = "none"]
  /\ UNCHANGED <<users, umtime, wexp>>
  /\ StoreFrame

\* save_users_async of shared/config/config.py up to the start of the write:
\* expected_mtime is not read.
ConfigSaveBegin(c, nick) ==
  /\ wpc[c] = "idle"
  /\ umtime < MaxMtime
  /\ wpc' = [wpc EXCEPT ![c] = "writing"]
  /\ wdata' = [wdata EXCEPT ![c] = nick]
  /\ wres' = [wres EXCEPT ![c] = "none"]
  /\ UNCHANGED <<users, umtime, wexp>>
  /\ StoreFrame

\* The write has replaced the store; users_cache and its mtime are set; True
\* is returned.
SaveEnd(c) ==
  /\ wpc[c] = "writing"
  /\ users' = [x \in DOMAIN users \cup {"u1"} |-> IF x = "u1" THEN wdata[c] ELSE users[x]]
  /\ umtime' = umtime + 1
  /\ wpc' = [wpc EXCEPT ![c] = "idle"]
  /\ wres' = [wres EXCEPT ![c] = "true"]
  /\ wexp' = [wexp EXCEPT ![c] = NoMarker]
  /\ UNCHANGED wdata
  /\ StoreFrame

StoreNext ==
  \/ \E c \in Ops : MarkerTaken(c)
  \/ \E c \in Ops : MarkerDropped(c)
  \/ \E c \in Ops, n \in Nicknames : StorageSaveBegin(c, n)
  \/ \E c \in Ops, n \in Nicknames : ConfigSaveBegin(c, n)
  \/ \E c \in Ops : SaveEnd(c)

----------------------------------------------------------------------------
(***************************************************************************)
(* save_user with an AppSaveDataBody, for one user.  The handler loads the *)
(* user map when it starts, compares the body's pt_timestamp with the      *)
(* loaded record's, awaits the upstream for a body with a token, and saves *)
(* the map it loaded with the record replaced.                             *)
(***************************************************************************)
\* The largest pt_timestamp a body carries.
MaxStamp == 3

\* pt_timestamp is None.
NoStamp == 0

SaveInit ==
  /\ pts = NoStamp
  /\ vpc = [q \in Reqs |-> "idle"]
  /\ vts = [q \in Reqs |-> NoStamp]
  /\ vtoken = [q \in Reqs |-> FALSE]
  /\ vbg = [q \in Reqs |-> FALSE]

SaveFrame == UNCHANGED <<bvars, gvars, avars, lvars, mvars, svars, wvars, kvars>>

\* The request arrives: load_users, the timestamp check, and on to the first
\* await: the upstream calls for a body with a token, else the save.
AppSaveBegin(q, ts, tok) ==
  /\ vpc[q] = "idle"
  /\ vts' = [vts EXCEPT ![q] = ts]
  /\ vtoken' = [vtoken EXCEPT ![q] = tok]
  /\ vpc' = [vpc EXCEPT ![q] = IF pts # NoStamp /\ pts >= ts THEN "done"
                                ELSE IF tok THEN "upstream" ELSE "saving"]
  /\ UNCHANGED <<pts, vbg>>
  /\ SaveFrame

\* is_token_invalid and fetch_user_info_with_token have returned; the record
\* is put into the map loaded at the start and save_users_async is awaited.
AppSaveFetched(q) ==
  /\ vpc[q] = "upstream"
  /\ vpc' = [vpc EXCEPT ![q] = "saving"]
  /\ UNCHANGED <<pts, vts, vtoken, vbg>>
  /\ SaveFrame

\* The map is written; a body with a token probes the token and queues
\* _update_user_profile; the response is sent.
AppSaveWritten(q) ==
  /\ vpc[q] = "saving"
  /\ pts' = vts[q]
  /\ vbg' = [vbg EXCEPT ![q] = vtoken[q]]
  /\ vpc' = [vpc EXCEPT ![q] = "done"]
  /\ UNCHANGED <<vts, vtoken>>
  /\ SaveFrame

\* The request is over.
AppSaveReturn(q) ==
  /\ vpc[q] = "done"
  /\ vpc' = [vpc EXCEPT ![q] = "idle"]
  /\ vts' = [vts EXCEPT ![q] = NoStamp]
  /\ vtoken' = [vtoken EXCEPT ![q] = FALSE]
  /\ vbg' = [vbg EXCEPT ![q] = FALSE]
  /\ UNCHANGED pts
  /\ SaveFrame

SaveNext ==
  \/ \E q \in Reqs, ts \in 1..MaxStamp, tok \in BOOLEAN : AppSaveBegin(q, ts, tok)
  \/ \E q \in Reqs : AppSaveFetched(q)
  \/ \E q \in Reqs : AppSaveWritten(q)
  \/ \E q \in Reqs : AppSaveReturn(q)

vars == <<bvars, gvars, avars, lvars, xvars>>

\* The event loop resumes token_renew_job when the call it awaits has
\* returned or raised (asyncio.sleep returns after the interval), and with
\* CancelledError once the task is cancelled.
RenewFair == WF_vars(JobStep) /\ WF_vars(TaskCancelled)

\* The state after start-up.
Init == BreakerInit /\ GatewayInit /\ CacheInit /\ LoginInit /\ MemInit /\ ShutdownInit /\ StoreInit /\ KvInit /\ SaveInit

SpecBreaker == Init /\ [][BreakerNext]_vars

SpecGateway == Init /\ [][GatewayNext]_vars

SpecSso == Init /\ [][SsoNext]_vars
SpecTokens == Init /\ [][TokensNext]_vars
SpecMem == Init /\ [][MemNext]_vars
SpecStore == Init /\ [][StoreNext]_vars
SpecSave == Init /\ [][SaveNext]_vars
SpecKv == Init /\ [][KvNext]_vars
SpecSeq == Init /\ [][SeqNext]_vars
SpecRenew == Init /\ [][ShutdownNext]_vars /\ RenewFair
SpecShutdown == Init /\ [][ShutdownNext]_vars

SpecCache == Init /\ [][CacheNext]_vars

SpecLogin == Init /\ [][LoginNext]_vars

SpecNewLogin == Init /\ [][NewLoginNext]_vars

----------------------------------------------------------------------------
(***************************************************************************)
(* Properties of the circuit breaker and of request_with_retry.            *)
(***************************************************************************)
IsOpen(h) == h \in DOMAIN breaker /\ breaker[h].open
IsHalf(h) == h \in DOMAIN breaker /\ breaker[h].half
InWindow(h) == IsOpen(h) /\ now - breaker[h].opened_at < RESET_TIMEOUT

\* Caller c runs the top of its loop body (the _should_block check) in this
\* step: when its call starts, and after each backoff sleep but the last.
AttemptStep(c) ==
  \/ cpc[c] = "idle" /\ cpc'[c] # "idle"
  \/ cpc[c] = "sleep" /\ cpc'[c] # "sleep" /\ cattempt[c] + 1 < cmax[c]
\* Caller c's network call ends in a recorded failure / a recorded success in this step.
FailureStep(c) == cpc[c] = "net" /\ cpc'[c] = "sleep"
SuccessStep(c) == cpc[c] = "net" /\ cpc'[c] = "done"

\* C4: an attempt made while the host's breaker is open and fewer than
\* RESET_TIMEOUT seconds have passed since opened_at ends the call with
\* CircuitOpen and makes no network call.
C4_OpenBreakerBlocks ==
  [][\A c \in Callers :
       (AttemptStep(c) /\ InWindow(chost'[c]))
         => /\ cpc'[c] = "done"
            /\ cresult'[c] = "CircuitOpen"
            /\ cnet'[c] = cnet[c]
            /\ \A d \in Callers : cpc'[d] = "net" => cpc[d] = "net"]_vars

C4_Witness ==
  \E c \in Callers :
    /\ cpc[c] = "done" /\ cresult[c] = "CircuitOpen"
    /\ InWindow(chost[c])
    /\ breaker[chost[c]].fail = FAIL_THRESHOLD

\* C5: the breaker of a host is open only when at least FAIL_THRESHOLD attempts
\* have failed since the host's last successful response; the failure that
\* brings that count to the threshold (or beyond) opens it and stamps opened_at
\* with the time of the failure; a failure below the threshold leaves it
\* closed; and nothing but such a failure opens it.
C5_OpensAtThreshold ==
  /\ [](\A h \in Hosts : IsOpen(h) => failsSince[h] >= FAIL_THRESHOLD)
  /\ [][\A c \in Callers :
          FailureStep(c) =>
            LET h == chost[c] IN
              /\ failsSince'[h] = failsSince[h] + 1
              /\ (failsSince'[h] >= FAIL_THRESHOLD) <=> breaker'[h].open
              /\ breaker'[h].open => breaker'[h].opened_at = now]_vars
  /\ [][\A h \in Hosts :
          (~IsOpen(h) /\ h \in DOMAIN breaker' /\ breaker'[h].open)
            => \E c \in Callers : FailureStep(c) /\ chost[c] = h]_vars

C5_Witness ==
  \E h \in Hosts :
    /\ IsOpen(h) /\ failsSince[h] = FAIL_THRESHOLD
    /\ \E c, d \in Callers : c # d /\ chost[c] = h /\ chost[d] = h
                             /\ cpc[c] = "sleep" /\ cpc[d] = "sleep"

\* C6: a response with status below 500 leaves the host's breaker at
\* fail = 0, open = false, half = false, whatever it was; and the failure
\* counter always equals the number of failures recorded since the last
\* success, so a failure of a call that started before the success counts
\* from 0 again.
C6_SuccessResets ==
  /\ [](\A h \in DOMAIN breaker : breaker[h].fail = failsSince[h])
  /\ [][\A c \in Callers :
          SuccessStep(c) => breaker'[chost[c]] = FreshState]_vars

C6_Witness ==
  \E c, d \in Callers :
    /\ c # d /\ chost[c] = chost[d]
    /\ cpc[c] = "done" /\ cresult[c] = "ok" /\ ctrial[c]
    /\ cpc[d] = "sleep" /\ cattempt[d] >= 1
    /\ breaker[chost[c]].fail = 1 /\ ~breaker[chost[c]].open

\* C7 as stated: at most one call at a time is in flight as a half-open trial
\* of a host.
C7_SingleTrial ==
  \A h \in Hosts :
    Cardinality({c \in Callers : cpc[c] = "net" /\ chost[c] = h /\ ctrial[c]}) <= 1

\* C7 as amended: the attempt that finds the breaker open past the reset
\* window is let through and leaves it half-open (open = false, half = true);
\* while it is half-open every further attempt to the host is let through too.
C7_HalfOpenLetsThrough ==
  [][\A c \in Callers :
       LET h == chost'[c] IN
         (AttemptStep(c) /\ h \in DOMAIN breaker) =>
           /\ (IsOpen(h) /\ ~InWindow(h)) =>
                 /\ cpc'[c] = "net" /\ cnet'[c] = cnet[c] + 1
                 /\ breaker'[h] = [breaker[h] EXCEPT !.open = FALSE, !.half = TRUE]
           /\ IsHalf(h) =>
                 /\ cpc'[c] = "net" /\ cnet'[c] = cnet[c] + 1
                 /\ breaker'[h] = breaker[h]]_vars

C7_Witness ==
  \E h \in Hosts : \E c, d \in Callers :
    /\ c # d /\ IsHalf(h)
    /\ chost[c] = h /\ cpc[c] = "net" /\ ctrial[c]
    /\ chost[d] = h /\ cpc[d] = "net" /\ ctrial[d]

----------------------------------------------------------------------------
(***************************************************************************)
(* Properties of the inflight guards and of the validity probes.           *)
(***************************************************************************)
Job == "job"

\* The operations with a validity probe of token t in flight.
Probing(t) ==
  {p \in Reqs : rpc[p] \in {"fast_probe", "bg_probe"} /\ rtok[p] = t}
    \cup (IF jpc = "renew_probe" /\ jtok = t THEN {Job} ELSE {})

\* The requests with a profile refresh of user u between its mark and its discard.
Refreshing(u) == {p \in Reqs : rpc[p] \in {"profile_fetch", "profile_save"} /\ ruser[p] = u}

\* C1: at most one validity probe is in flight for a token at any instant,
\* across the SSO fast path, the post-login validation and the renewal sweep.
C1_OneProbePerToken == \A t \in Tokens : Cardinality(Probing(t)) <= 1

\* C2: between two clear_inflight(key), try_mark_inflight(key) answers true at
\* most once, exactly when the key was not marked, and it leaves the key
\* marked; every other call is answered false and finds the key marked; after
\* clear_inflight(key) the count starts again, so the next call is granted.
C2_TryMarkAtomic ==
  \A k \in Tokens :
    /\ marks[k].granted <= 1
    /\ marks[k].granted = 1 <=> k \in inflightTokens
    /\ marks[k].refused => k \in inflightTokens

C2_Witness ==
  \E k \in Tokens :
    /\ marks[k].granted = 1 /\ marks[k].refused /\ k \in inflightTokens
    /\ \E p \in Reqs : rpc[p] = "bg_probe" /\ rtok[p] = k

\* C3: every inflight mark, of a token or of a user, belongs to guarded work
\* that is still running: a validity check, a renewal step or a profile
\* refresh that ended (returned, raised or was cancelled) has left no mark;
\* hence both sets are empty whenever no guarded work is running.
C3_MarksReleased ==
  /\ \A k \in inflightTokens : Probing(k) # {}
  /\ \A u \in inflightUsers : Refreshing(u) # {}
  /\ ((\A t \in Tokens : Probing(t) = {}) /\ (\A u \in UserIds : Refreshing(u) = {}))
        => (inflightTokens = {} /\ inflightUsers = {})

C3_Witness ==
  /\ jpc = "sweeping" /\ jerrors >= 1
  /\ \A p \in Reqs : rpc[p] = "idle"
  /\ inflightTokens = {} /\ inflightUsers = {}
  /\ users["u1"] = "n1"

\* The entries of token t that are in the cache stay in it through this step.
KeepsEntries(t) ==
  /\ cache.index[t] # NoIndex => cache'.index[t] = cache.index[t]
  /\ \A u \in UserIds : cache.byUser[u] = t => cache'.byUser[u] = t
  /\ \A d \in Uids : cache.byUid[d] = t => cache'.byUid[d] = t

\* Some entry that is in the cache is gone after this step.
EvictsSome ==
  \/ \E t \in Tokens : cache.index[t] # NoIndex /\ cache'.index[t] = NoIndex
  \/ \E u \in UserIds : cache.byUser[u] # NoToken /\ cache'.byUser[u] = NoToken
  \/ \E d \in Uids : cache.byUid[d] # NoToken /\ cache'.byUid[d] = NoToken

InvalidResponse == [kind |-> "response", code |-> TOKEN_INVALID_CODE]
NotInvalid == ProbeOutcomes \ {InvalidResponse}

\* C10: a validity probe that ends in RequestFailed, CircuitOpen or a
\* transport exception (or in any response but the invalid-token code), or is
\* cancelled, evicts no cache entry of its token and is not answered as
\* invalid: the SSO request serves the cached token without a login call, the
\* post-login check leaves the cache as it is, the sweep counts an error or
\* refreshes; and a step that evicts an entry is a probe that ended with the
\* invalid-token code (or the entry's own expiry).
C10_FailOpen ==
  [][/\ \A p \in Reqs :
          /\ rpc[p] = "fast_probe" =>
                \A o \in NotInvalid :
                  FastProbeEnd(p, o) => (KeepsEntries(rtok[p]) /\ rpc'[p] = "idle")
          /\ rpc[p] = "bg_probe" =>
                \A o \in NotInvalid : BgProbeEnd(p, o) => cache' = cache
          /\ (rpc[p] # "idle" /\ RequestCancelled(p)) => cache' = cache
     /\ jpc = "renew_probe" =>
          /\ \A o \in NotInvalid : RenewProbeEnd(o) => KeepsEntries(jtok)
          /\ \A o \in ProbeErrors :
                RenewProbeEnd(o) => (cache' = cache /\ jerrors' = jerrors + 1)
     /\ (jpc' = "stopped" /\ RenewCancelled) => cache' = cache
     /\ (cache' # cache /\ EvictsSome) =>
          \/ \E c2 \in Expirations : Expire(c2)
          \/ \E p \in Reqs : FastProbeEnd(p, InvalidResponse) \/ BgProbeEnd(p, InvalidResponse)
          \/ RenewProbeEnd(InvalidResponse)]_vars

C10_Witness ==
  /\ jpc = "sweeping" /\ jtokens = {} /\ jerrors = Cardinality(Tokens)
  /\ \A t \in Tokens : cache.index[t] # NoIndex
  /\ cache.byUser["u1"] # NoToken /\ cache.byUid["d1"] # NoToken

----------------------------------------------------------------------------
(***************************************************************************)
(* Properties of the token entries written by a login and by the sweep.    *)
(***************************************************************************)
\* C11: when the request of a successful login for user u with token t and
\* uid d completes (its last entry is written and the response is sent),
\* token_by_user:u = t, token_index:t = {userid: u, uid: d} and, when d was
\* given, token_by_uid:d = t are all in the cache.
C11_EntriesTogether ==
  [][\A p \in Reqs :
       LoginWriteIndex(p) =>
         LET u == ruser[p]
             t == rtok[p]
             d == UidOfToken[t]
         IN /\ cache'.byUser[u] = t
            /\ cache'.index[t] = IndexOf(u, d)
            /\ d # NoUid => cache'.byUid[d] = t]_vars

\* The cache holds no entry of token t: no token_index:t, and no
\* token_by_user or token_by_uid entry that maps to t.
NoEntryOf(c, t) ==
  /\ c.index[t] = NoIndex
  /\ \A u \in UserIds : c.byUser[u] # t
  /\ \A d \in Uids : c.byUid[d] # t

\* C12: once the sweep has handled a token of the token index whose probe
\* reported invalid, token_index:t and the token_by_user and token_by_uid
\* entries of t are all absent from the cache.
C12_InvalidEvicted ==
  [][RenewProbeEnd(InvalidResponse) => NoEntryOf(cache', jtok)]_vars

\* C14: an exception raised while one token is checked, refreshed or evicted
\* does not end the sweep: the step counts it, clears the mark and goes on
\* with the key list as it was; the list only shrinks by the token the loop
\* takes next (probed, or skipped because its mark is held); the sweep goes to
\* sleep only when the list is empty; and the task ends by cancellation only.
C14_SweepSurvivesErrors ==
  /\ [](jpc \in {"sleeping", "sweeping", "renew_probe", "stopped"})
  /\ [][(jpc = "renew_probe" /\ jpc' # jpc)
          => \/ jpc' = "sweeping" /\ jtokens' = jtokens
             \/ RenewCancelled]_vars
  /\ [][(jpc = "sweeping" /\ jpc' = "sleeping") => jtokens = {}]_vars
  /\ [][(jpc = "sweeping" /\ jtokens' # jtokens)
          => \/ \E t \in jtokens : SweepNext(t) /\ jtokens' = jtokens \ {t}
             \/ RenewCancelled]_vars
  /\ [][(jpc # "stopped" /\ jpc' = "stopped") => RenewCancelled]_vars

C14_Witness ==
  /\ jpc = "renew_probe" /\ jerrors = 1 /\ jtokens = {}
  /\ jtok \notin inflightTokens \/ Cardinality(inflightTokens) = 1

----------------------------------------------------------------------------
(***************************************************************************)
(* Properties of the cache's expiry times and of get after set.           *)
(***************************************************************************)

\* C13: a refresh, that is a set that rewrites a live entry with the value it
\* holds, as the renewal sweep does for the three entries of a valid token,
\* never shortens its life: when the set returns, the entry's expiry is not
\* earlier than the expiry it had before.  (The claim asks for a later expiry;
\* two writes within the same second of the model's clock may be stamped alike.)
C13_RefreshExtends ==
  [][\A o \in Ops :
       (SetEnd(o) /\ glast[okey[o]].by = o /\ glast[okey[o]].prev > 0)
         => glast'[okey[o]].exp >= glast[okey[o]].prev]_vars

\* C15: once set(key, v) has been called and while v is unexpired there is no
\* live negative entry for the key, so no get(key) answers absent from the
\* negative cache; this also when a get that started before the set records
\* its miss after the set has removed the standing negative entry.
C15_NoShadow ==
  \A k \in Keys :
    (glast[k].by # "none" /\ glast[k].exp > Now100) => ~MissLive(k, Now100)

\* C16: get(key) never answers a value whose expiry is <= now.  The value of
\* the last set expires at the later of the expiries that set gave it in the
\* mirror and in the backing store; with no set in progress, a get that
\* answers that value finds this expiry still ahead.
C16_NeverExpired ==
  \A k \in Keys :
    (/\ glast[k].by # "none"
     /\ \A o \in Ops : opc[o] # "set_wait"
     /\ get_now(k) = glast[k].data)
      => glast[k].exp > Now100

\* C17: when set(key, value, ttl) with ttl > 0 returns and no other set of the
\* key has started meanwhile, a get(key) called at once answers the value (as
\* bytes: the UTF-8 encoding of a str).
C17_RoundTrip ==
  [][\A o \in Ops :
       (SetEnd(o) /\ glast[okey[o]].by = o) => get_now(okey[o])' = odata[o]]_vars

\* C18: a write made with nominal TTL B = TOKEN_TTL stores a lifetime within
\* [max(5, 0.8 * B), 1.2 * B] seconds, in the mirror (ttl) and in the backing
\* store (int(ttl)), every jitter step between the caller and the store counted.
C18_StoredLifetime ==
  \A o \in Ops :
    opc[o] = "set_wait" =>
      /\ Max2(500, 80 * TOKEN_TTL) <= ottl[o] /\ ottl[o] <= 120 * TOKEN_TTL
      /\ Max2(500, 80 * TOKEN_TTL) <= int(ottl[o]) /\ int(ottl[o]) <= 120 * TOKEN_TTL

----------------------------------------------------------------------------
(***************************************************************************)
(* Properties of user_login.                                               *)
(***************************************************************************)

\* C19: a user_login call that begins while an unexpired login entry exists
\* for its credentials does not start the upstream call: it returns the cached
\* result at once or reads it from the backing store.
C19_CachedNoUpstream ==
  [][\A c \in Ops :
       (LoginBegin(c) /\ EntryLive) =>
          /\ lpc'[c] # "upstream"
          /\ lpc'[c] = "returned" => lres'[c] = glast[LoginKey].data]_vars

\* The upstream response cannot be used: it carries no token, its token ends
\* with the offline marker, or the probe calls the token invalid.
Unusable == {"no_token", "offline", "probe_invalid"}

\* C20: when the upstream response is unusable, user_login raises 401 and
\* neither writes nor starts to write a cache entry; a call that comes back
\* from upstream with a record, or goes on to cache one, had a usable response.
C20_RejectsUnusable ==
  [][\A c \in Ops, out \in LoginOutcomes, t \in Texts, j1 \in Jitters, j2 \in Jitters :
       (LoginUpstreamEnd(c, out, t, j1, j2) \/ NewLoginEnd(c, out, t)) =>
          /\ out \in Unusable =>
                /\ lpc'[c] = "returned" /\ lres'[c] = HTTP401
                /\ amem' = amem /\ adisk' = adisk /\ opc'[c] = "idle"
          /\ (lpc'[c] = "set_wait" \/ lres'[c].kind = "bytes") => out = "ok"]_vars

\* C21: user_login raises 504 exactly when the upstream call failed (retries
\* used up or circuit open), and raises 401 only when the upstream answered
\* without a usable token, as it does for an answer without a token; a failed
\* call is never reported as 401.
C21_NetworkErrorIs504 ==
  [][\A c \in Ops, out \in LoginOutcomes, t \in Texts, j1 \in Jitters, j2 \in Jitters :
       (LoginUpstreamEnd(c, out, t, j1, j2) \/ NewLoginEnd(c, out, t)) =>
          /\ out = "failed" <=> lres'[c] = HTTP504
          /\ lres'[c] = HTTP401 => out \in Unusable
          /\ out = "no_token" => lres'[c] = HTTP401]_vars

\* C22: a call of user_login makes a user record inactive only while the
\* auto-disable policy flag is enabled.
C22_DisableOnlyByPolicy ==
  [][\A c \in Ops, out \in LoginOutcomes, t \in Texts :
       (NewLoginEnd(c, out, t) /\ uactive' # uactive) => cfgDisable]_vars

----------------------------------------------------------------------------
(***************************************************************************)
(* Properties of the SSO request.                                          *)
(***************************************************************************)

\* C23: an SSO request for a user id with no stored record ends at once (404):
\* it issues no upstream call, neither probe nor login, and changes no cache
\* entry, no mark and no user record.
C23_UnknownUser404 ==
  [][\A p \in Reqs, u \in UserIds :
       (SsoBegin(p, u) /\ u \notin DOMAIN users) =>
          /\ rpc'[p] = "idle"
          /\ cache' = cache /\ users' = users]_vars

C24_InvalidNotServed ==
  [][/\ \A p \in Reqs, o \in ProbeOutcomes :
          FastProbeEnd(p, o) =>
            IF is_token_invalid(o)
              THEN /\ cache'.index[rtok[p]] = NoIndex
                   /\ rpc'[p] \in {"login", "idle"}
                   /\ rtok'[p] # rtok[p]
              ELSE rpc'[p] = "idle"
     /\ \A p \in Reqs, u \in UserIds :
          (SsoBegin(p, u) /\ cache.byUser[u] # NoToken
                          /\ ~try_mark_inflight(inflightTokens, cache.byUser[u]).ok) =>
             rpc'[p] = "idle"]_vars

\* The step in which the background refresh of request p starts for key u:
\* after the post-login check (its probe returned or it did not get the token
\* mark), or after a save request.
RefreshStarts(p, u) ==
  \/ /\ u = ruser[p]
     /\ \/ \E o \in ProbeOutcomes : BgProbeEnd(p, o)
        \/ BgValidateBegin(p) /\ rpc'[p] # "bg_probe"
  \/ SaveRefreshBegin(p, u)

\* C26: for a user key at most one background refresh is between its load of
\* the user records and its save, whether started by an SSO login or by a save
\* request; a refresh that starts while the key's mark is held returns at once,
\* with the user records and the mark left as they were.
C26_OneRefreshPerKey ==
  [][/\ \A u \in UserIds :
          /\ Cardinality(Refreshing(u)') <= 1
          /\ Refreshing(u)' # {} => u \in inflightUsers'
     /\ \A p \in Reqs, u \in UserIds :
          (RefreshStarts(p, u) /\ u \in inflightUsers) =>
             /\ rpc'[p] = "idle"
             /\ users' = users
             /\ inflightUsers' = inflightUsers]_vars

\* A refresh for u1 holds the mark and waits for the user-info call while the
\* other request, which logged u1 in after it, is back idle: its refresh
\* found the mark held.
C26_Witness ==
  /\ rpc["r1"] = "profile_fetch" /\ ruser["r1"] = "u1"
  /\ rpc["r2"] = "idle"
  /\ inflightUsers = {"u1"}
  /\ cache.index["t1"] # NoIndex /\ cache.index["t2"] # NoIndex
  /\ cache.byUser["u1"] = "t2"

----------------------------------------------------------------------------
(***************************************************************************)
(* Properties of InMemoryKVCache.                                          *)
(***************************************************************************)

\* C27: after any set the cache holds at most capacity items, and every item
\* a set evicts was touched (by a get hit or a set) before every item that
\* the set leaves in the cache.
C27_LruBounded ==
  [][\A k \in MemKeys, value \in MemValues, ex \in MemExs :
       MemSet(k, value, ex) =>
         /\ Len(mdata') <= capacity
         /\ mevicted' = KeysOf(mdata) \ KeysOf(mdata')
         /\ \A e \in mevicted', o \in KeysOf(mdata') :
              mtouch'[e].stamp < mtouch'[o].stamp]_vars

\* The cache is full, a set has just evicted agg:u2, and agg:u1, stored before
\* agg:u2, stays because a get hit touched it after agg:u2 was stored.
C27_Witness ==
  /\ Len(mdata) = capacity
  /\ mevicted = {MemKey("agg:", "u2")}
  /\ mdata[1].key = MemKey("agg:", "u1")
  /\ mtouch[MemKey("agg:", "u1")].by = "get"
  /\ mtouch[MemKey("agg:", "u2")].stamp = 2
  /\ mtouch[MemKey("agg:", "u1")].stamp = 3

----------------------------------------------------------------------------
(***************************************************************************)
(* Properties of the shutdown.                                             *)
(***************************************************************************)

\* C28: at shutdown the renewal task is cancelled before the HTTP client and
\* the cache are released: whenever one of them is closed the task has
\* stopped, and no step of a sweep runs with the client or the cache closed.
C28_CancelBeforeRelease ==
  [][/\ (~httpOpen' \/ ~cacheOpen') => jpc' = "stopped"
     /\ SweepStep => (httpOpen /\ cacheOpen)]_vars

----------------------------------------------------------------------------
(***************************************************************************)
(* Properties of the renewal loop.                                         *)
(***************************************************************************)

\* C29: the renewal loop alternates sweeping and sleeping for as long as it is
\* not cancelled: every sweep ends (in a sleep, unless the task is cancelled
\* first), every sleep is followed by a sweep (unless the task is cancelled
\* first), the task stops by cancellation only, whatever exceptions the sweep
\* steps raise, and once it has stopped no sweep starts again.
C29_LoopAlternates ==
  /\ [](jpc \in {"sweeping", "renew_probe"} => <>(jpc \in {"sleeping", "stopped"}))
  /\ [](jpc = "sleeping" => <>(jpc \in {"sweeping", "stopped"}))
  /\ [][(jpc # "stopped" /\ jpc' = "stopped") => (spc = "cancelled" /\ RenewCancelled)]_vars
  /\ [][jpc = "stopped" => jpc' = "stopped"]_vars

\* A sweep has visited both cached tokens, one step raised and the other
\* found its token invalid and evicted it; the key list is exhausted and the
\* loop is about to sleep.
C29_Witness ==
  /\ jpc = "sweeping" /\ jtokens = {} /\ jerrors = 1
  /\ Cardinality({t \in Tokens : cache.index[t] # NoIndex}) = 1
  /\ inflightTokens = {}

----------------------------------------------------------------------------
(***************************************************************************)
(* Properties of save_users_async.                                         *)
(***************************************************************************)

\* C30: save_users_async called with a marker returns False and writes
\* nothing when the store's modification time is no longer the marker's;
\* otherwise it writes the store and returns True.
C30_StaleMarkerRefused ==
  [][\A c \in Ops :
       /\ \A n \in Nicknames :
            (StorageSaveBegin(c, n) \/ ConfigSaveBegin(c, n)) =>
               IF wexp[c] # NoMarker /\ umtime # wexp[c]
                 THEN wres'[c] = "false" /\ wpc'[c] = "idle" /\ users' = users
                 ELSE wpc'[c] = "writing"
       /\ SaveEnd(c) => (wres'[c] = "true" /\ users'["u1"] = wdata[c])]_vars

----------------------------------------------------------------------------
(***************************************************************************)
(* Properties of the cache's delete and clear, and of the two tiers as a   *)
(* one-tier map.                                                           *)
(***************************************************************************)

\* C31: once delete(key) has returned, and no set(key) has started since the
\* delete was called, every get(key) returns absent; this also when a
\* get(key) was suspended on the backing store's read while the delete ran
\* and writes the mirror afterwards.
C31_DeletedStaysAbsent ==
  \A k \in Keys : kref[k].del = "returned" => get_now(k) = None

\* C34: in a sequential history of get, set and delete calls, between two
\* calls get(key) answers what a map with one tier and an expiry per entry
\* answers: the data of the last set while it is unexpired in both tiers'
\* reckoning and not deleted, and absent once it is deleted or expired in both.
C34_OneTierAnswers ==
  AllIdle =>
    \A k \in Keys :
      /\ (kref[k].data # None /\ kref[k].del # "returned" /\ kref[k].lo > Now100)
           => get_now(k) = kref[k].data
      /\ (kref[k].data = None \/ kref[k].del = "returned" \/ kref[k].hi <= Now100)
           => get_now(k) = None

\* C35: after clear_cache() has completed, and with no set(key) started since
\* it was called, get(key) returns absent for every key, the mirror included.
C35_ClearedStaysAbsent ==
  \A k \in Keys : kclr[k] = "done" => get_now(k) = None

----------------------------------------------------------------------------
(***************************************************************************)
(* Properties of the token entries of one user with two tokens.            *)
(***************************************************************************)

\* The step evicts token t: a probe of t reported it invalid and
\* invalidate_token_cache(t) ran.
Evicts(t) ==
  \/ \E p \in Reqs, o \in ProbeOutcomes :
       FastProbeEnd(p, o) /\ is_token_invalid(o) /\ rtok[p] = t
  \/ \E p \in Reqs, o \in ProbeOutcomes :
       BgProbeEnd(p, o) /\ is_token_invalid(o) /\ rtok[p] = t
  \/ \E o \in ProbeOutcomes :
       RenewProbeEnd(o) /\ check_token_status(o).invalid /\ jtok = t

\* The step is the renewal sweep's refresh of token t.
Renews(t) ==
  \E o \in ProbeOutcomes :
    /\ RenewProbeEnd(o)
    /\ ~check_token_status(o).raised /\ ~check_token_status(o).invalid
    /\ jtok = t

\* C32: evicting or refreshing token t does not disturb another token of the
\* same user: the eviction of t removes token_by_user:u only when the entry
\* maps to t, and the sweep's refresh of t leaves token_by_user:u as it is
\* when the entry maps to a token issued later than t.
C32_OtherTokenKept ==
  [][\A t \in Tokens, u \in UserIds :
       /\ (Evicts(t) /\ cache.byUser[u] # t) => cache'.byUser[u] = cache.byUser[u]
       /\ (Renews(t) /\ cache.byUser[u] # NoToken /\ Rank[cache.byUser[u]] > Rank[t])
            => cache'.byUser[u] = cache.byUser[u]]_vars

\* C33: when the fast path's probe reports the cached token t of the
\* request's user invalid and the full login follows, user_login finds no
\* cached login record: it makes the upstream call and cannot answer with the
\* record that holds t; this also when token_index:t had expired before the
\* probe returned while token_by_user still mapped to t.
C33_InvalidForcesUpstream ==
  [][\A p \in Reqs, o \in ProbeOutcomes :
       (FastProbeEnd(p, o) /\ is_token_invalid(o) /\ rpc'[p] = "login") =>
          /\ cache'.login[ruser[p]] = NoToken
          /\ rtok'[p] = NoToken]_vars

----------------------------------------------------------------------------
(***************************************************************************)
(* Properties of the breaker's states.                                     *)
(***************************************************************************)

\* C36: in every reachable breaker state of a host, open and half are never
\* both true; open implies fail >= FAIL_THRESHOLD; half implies
\* fail >= FAIL_THRESHOLD; and a state that is neither open nor half has
\* fail < FAIL_THRESHOLD.
C36_BreakerStateShape ==
  \A h \in DOMAIN breaker :
    /\ ~(breaker[h].open /\ breaker[h].half)
    /\ breaker[h].open => breaker[h].fail >= FAIL_THRESHOLD
    /\ breaker[h].half => breaker[h].fail >= FAIL_THRESHOLD
    /\ (~breaker[h].open /\ ~breaker[h].half) => breaker[h].fail < FAIL_THRESHOLD

\* One host is half-open after its window while the other, with failures
\* below the threshold, is closed.
C36_Witness ==
  \E h, g \in DOMAIN breaker :
    /\ breaker[h].half /\ ~breaker[h].open /\ breaker[h].fail >= FAIL_THRESHOLD
    /\ ~breaker[g].open /\ ~breaker[g].half
    /\ breaker[g].fail > 0 /\ breaker[g].fail < FAIL_THRESHOLD

\* C37: breaker state is kept per host.  An attempt, a recorded success or a
\* recorded failure of a call to one host leaves the state of every other
\* host as it was (its counter, flags and open time, and whether it exists
\* yet); and a call is refused with CircuitOpen only when the breaker of its
\* own host is open within its window, so failures of one host never block
\* the calls to another.
C37_HostsIsolated ==
  [][\A c \in Callers :
       /\ \A g \in Hosts :
            ((AttemptStep(c) \/ FailureStep(c) \/ SuccessStep(c)) /\ g # chost'[c]) =>
               /\ (g \in DOMAIN breaker') = (g \in DOMAIN breaker)
               /\ g \in DOMAIN breaker => breaker'[g] = breaker[g]
       /\ (AttemptStep(c) /\ cresult'[c] = "CircuitOpen") => InWindow(chost'[c])]_vars

\* A call to one host is refused by that host's open breaker while a call to
\* the other host has failed once and goes on.
C37_Witness ==
  \E c, d \in Callers :
    /\ chost[c] # chost[d]
    /\ cpc[c] = "done" /\ cresult[c] = "CircuitOpen" /\ InWindow(chost[c])
    /\ cpc[d] = "sleep" /\ chost[d] \in DOMAIN breaker
    /\ breaker[chost[d]].fail = 1 /\ ~breaker[chost[d]].open

----------------------------------------------------------------------------
(***************************************************************************)
(* Properties of the sweep's skip.                                         *)
(***************************************************************************)

\* C38: when the sweep does not get the inflight mark of a token because
\* another operation holds it, the sweep makes no probe of that token,
\* changes no cache entry, leaves the holder's mark in place and goes on with
\* the tokens still on its list.
C38_SkipLeavesAll ==
  [][\A t \in Tokens :
       (SweepNext(t) /\ t \in inflightTokens) =>
          /\ jpc' = "sweeping" /\ jtok' = jtok
          /\ cache' = cache
          /\ inflightTokens' = inflightTokens
          /\ jtokens' = jtokens \ {t}
          /\ UNCHANGED <<rpc, rtok, ruser>>]_vars

\* The sweep has skipped a token whose mark a request holds for its probe,
\* and has another token still to visit.
C38_Witness ==
  \E t \in Tokens, p \in Reqs :
    /\ jpc = "sweeping" /\ t \notin jtokens /\ jtokens # {}
    /\ t \in inflightTokens /\ marks[t].refused
    /\ rpc[p] \in {"fast_probe", "bg_probe"} /\ rtok[p] = t

----------------------------------------------------------------------------
(***************************************************************************)
(* Properties of the later user_login's failures.                          *)
(***************************************************************************)

\* C39: a user_login call that ends with the network error (the upstream
\* request failed after its retries, or the circuit was open) leaves the user
\* store unchanged: it never makes the account inactive, whatever the
\* auto-disable policy flag and the _userid argument are.
C39_NetworkErrorKeepsStore ==
  [][\A c \in Ops, out \in LoginOutcomes, t \in Texts :
       (NewLoginEnd(c, out, t) /\ (out = "failed" \/ lres'[c] = HTTP504)) =>
          UNCHANGED <<uactive, users>>]_vars

\* A call made without _userid and with the policy flag on has ended with
\* the network error, and the account is active.
C39_Witness ==
  \E c \in Ops :
    /\ lpc[c] = "returned" /\ lres[c] = HTTP504
    /\ lwho[c] = NoUserId /\ cfgDisable
    /\ uactive[luser[c]]

----------------------------------------------------------------------------
(***************************************************************************)
(* Properties of the application's save request.                           *)
(***************************************************************************)

\* C40: an application save request whose pt_timestamp is not strictly
\* greater than the stored one leaves the user store unchanged and queues no
\* background refresh, so that the stored pt_timestamp never decreases
\* through save requests.
C40_StampNeverDecreases ==
  [][/\ \A q \in Reqs, ts \in 1..MaxStamp, tok \in BOOLEAN :
          (AppSaveBegin(q, ts, tok) /\ pts # NoStamp /\ ts <= pts) =>
             /\ pts' = pts
             /\ vpc'[q] = "done" /\ ~vbg'[q]
     /\ pts # NoStamp => pts' >= pts]_vars

====
